---- MODULE Spec2Model ----
(***************************************************************************)
(* Model of the gh-todo extension of pi-squared.                           *)
(*                                                                         *)
(* Strings are sequences of tokens.  A token is either one ordinary        *)
(* character or one of the fixed markup strings the section codec searches *)
(* for (the two section markers and the four HTML tags); each of those is  *)
(* kept atomic, so String.indexOf(marker) is the index of the first        *)
(* occurrence of the marker's token.                                       *)
(***************************************************************************)
EXTENDS Integers, Sequences, FiniteSets, TLC

\* ------------------------------------------------------------------ bounds
MaxBodyLen == 3
MaxNotesLen == 1
MaxUpdates == 1
MaxResaves == 2
MaxEntries == 3
MaxIssueNumber == 12
MaxTitleLen == 2
MaxRev == 3
MaxIssues == 2
MaxTextLen == 2
MaxTurns == 2
MaxCommits == 2
MaxContext == 9000

\* ------------------------------------------------------------------ tokens
PI_SECTION_START == <<"<!--start-->">>
PI_SECTION_END == <<"<!--end-->">>
PI_SECTION_TITLE == <<"T">>
DetailsOpen == <<"<details>">>
DetailsClose == <<"</details>">>
SummaryOpen == <<"<summary>">>
SummaryClose == <<"</summary>">>
NL == <<"\n">>

\* characters matched by \s (String.prototype.trim strips them)
Whitespace == {"\n"}
\* tokens whose text contains the character '<'
HasLt == {PI_SECTION_START[1], PI_SECTION_END[1], DetailsOpen[1],
          DetailsClose[1], SummaryOpen[1], SummaryClose[1]}
Alphabet == HasLt \cup Whitespace \cup {"x"}
\* characters issue bodies written by users are drawn from
BodyAlphabet == {PI_SECTION_START[1], PI_SECTION_END[1], "\n", "x"}
\* characters the notes argument is drawn from
NotesAlphabet == {PI_SECTION_START[1], PI_SECTION_END[1], DetailsClose[1], "\n", "x"}

\* the JavaScript null of "string | null"
Null == <<"null">>

SeqsUpTo(S, n) == UNION {[1..k -> S] : k \in 0..n}

\* --------------------------------------------------------- string helpers
\* String.prototype.indexOf for a one-token needle; 0 stands for -1 and
\* positions are 1-based
IndexOf(s, tok) ==
  IF \E i \in 1..Len(s) : s[i] = tok
  THEN CHOOSE i \in 1..Len(s) : s[i] = tok /\ \A j \in 1..(i-1) : s[j] # tok
  ELSE 0

\* s.slice(from) / s.slice(0, to) on 1-based inclusive positions
Slice(s, from, to) == SubSeq(s, from, to)

\* String.prototype.trim
Trim(s) ==
  IF \A i \in 1..Len(s) : s[i] \in Whitespace THEN <<>>
  ELSE LET lo == CHOOSE i \in 1..Len(s) :
                   s[i] \notin Whitespace /\ \A j \in 1..(i-1) : s[j] \in Whitespace
           hi == CHOOSE i \in 1..Len(s) :
                   s[i] \notin Whitespace /\ \A j \in (i+1)..Len(s) : s[j] \in Whitespace
       IN SubSeq(s, lo, hi)

\* parts.filter(p => p.length > 0).join("\n\n")
RECURSIVE JoinNonEmpty(_)
JoinNonEmpty(parts) ==
  IF parts = <<>> THEN <<>>
  ELSE LET rest == JoinNonEmpty(Tail(parts))
       IN IF Head(parts) = <<>> THEN rest
          ELSE IF rest = <<>> THEN Head(parts)
          ELSE Head(parts) \o NL \o NL \o rest

\* ----------------------------------------------------------- section codec
\* wrapInCollapsible without the empty-content test
wrapInCollapsible_alwaysWraps(content) ==
  PI_SECTION_START \o NL
  \o DetailsOpen \o NL
  \o SummaryOpen \o PI_SECTION_TITLE \o SummaryClose \o NL
  \o NL
  \o Trim(content) \o NL
  \o NL
  \o DetailsClose \o NL
  \o PI_SECTION_END

wrapInCollapsible(content) ==
  IF Trim(content) = <<>> THEN <<>>
  ELSE PI_SECTION_START \o NL
       \o DetailsOpen \o NL
       \o SummaryOpen \o PI_SECTION_TITLE \o SummaryClose \o NL
       \o NL
       \o Trim(content) \o NL
       \o NL
       \o DetailsClose \o NL
       \o PI_SECTION_END

\* section.match(/<details>[\s\S]*?<summary>[^<]*<\/summary>([\s\S]*?)<\/details>/)
\* returns the capture group, or Null when the pattern does not match.
\* The leftmost match starts at the first <details>; the lazy [\s\S]*? stops
\* at the first <summary> from which the rest of the pattern can match:
\* the first '<' after it must open </summary>, and a </details> must follow.
DetailsMatch(section) ==
  LET n == Len(section)
      SummaryEnd(j) ==
        IF \E k \in (j+1)..n : section[k] \in HasLt
        THEN CHOOSE k \in (j+1)..n :
               section[k] \in HasLt /\ \A l \in (j+1)..(k-1) : section[l] \notin HasLt
        ELSE 0
      Matches(i, j) ==
        /\ section[i] = DetailsOpen[1]
        /\ j > i
        /\ section[j] = SummaryOpen[1]
        /\ SummaryEnd(j) # 0
        /\ section[SummaryEnd(j)] = SummaryClose[1]
        /\ \E m \in (SummaryEnd(j)+1)..n : section[m] = DetailsClose[1]
      Starts == {i \in 1..n : \E j \in 1..n : Matches(i, j)}
  IN IF Starts = {} THEN Null
     ELSE LET i == CHOOSE a \in Starts : \A b \in Starts : a <= b
              j == CHOOSE a \in 1..n : Matches(i, a) /\ \A b \in 1..(a-1) : ~Matches(i, b)
              k == SummaryEnd(j)
              m == CHOOSE a \in (k+1)..n :
                     section[a] = DetailsClose[1]
                     /\ \A b \in (k+1)..(a-1) : section[b] # DetailsClose[1]
          IN SubSeq(section, k+1, m-1)

\* extractPiSection returning the capture group without trimming it
extractPiSection_untrimmed(body) ==
  LET startIdx == IndexOf(body, PI_SECTION_START[1])
      endIdx == IndexOf(body, PI_SECTION_END[1])
  IN IF startIdx = 0 \/ endIdx = 0 \/ endIdx <= startIdx THEN Null
     ELSE DetailsMatch(Slice(body, startIdx + 1, endIdx - 1))

extractPiSection(body) ==
  LET startIdx == IndexOf(body, PI_SECTION_START[1])
      endIdx == IndexOf(body, PI_SECTION_END[1])
  IN IF startIdx = 0 \/ endIdx = 0 \/ endIdx <= startIdx THEN Null
     ELSE LET section == Slice(body, startIdx + 1, endIdx - 1)
              detailsMatch == DetailsMatch(section)
          IN IF detailsMatch # Null THEN Trim(detailsMatch) ELSE Null

\* extractUserContent without the "end before start" test
extractUserContent_unordered(body) ==
  LET startIdx == IndexOf(body, PI_SECTION_START[1])
      endIdx == IndexOf(body, PI_SECTION_END[1])
  IN IF startIdx = 0 \/ endIdx = 0 THEN Trim(body)
     ELSE LET before == Trim(Slice(body, 1, startIdx - 1))
              after == Trim(Slice(body, endIdx + 1, Len(body)))
          IN JoinNonEmpty(<<before, after>>)

extractUserContent(body) ==
  LET startIdx == IndexOf(body, PI_SECTION_START[1])
      endIdx == IndexOf(body, PI_SECTION_END[1])
  IN IF startIdx = 0 \/ endIdx = 0 \/ endIdx <= startIdx THEN Trim(body)
     ELSE LET before == Trim(Slice(body, 1, startIdx - 1))
              after == Trim(Slice(body, endIdx + 1, Len(body)))
          IN JoinNonEmpty(<<before, after>>)

\* updatePiSection dropping the text after the end marker
updatePiSection_dropAfter(body, newContent) ==
  LET wrapped == wrapInCollapsible(newContent)
      startIdx == IndexOf(body, PI_SECTION_START[1])
      endIdx == IndexOf(body, PI_SECTION_END[1])
  IN IF startIdx = 0 \/ endIdx = 0 \/ endIdx <= startIdx
     THEN LET trimmedBody == Trim(body)
          IN IF trimmedBody = <<>> THEN wrapped
             ELSE trimmedBody \o NL \o NL \o wrapped
     ELSE JoinNonEmpty(<<Trim(Slice(body, 1, startIdx - 1)), wrapped>>)

\* updatePiSection joining the untrimmed text around the section
updatePiSection_noTrim(body, newContent) ==
  LET wrapped == wrapInCollapsible(newContent)
      startIdx == IndexOf(body, PI_SECTION_START[1])
      endIdx == IndexOf(body, PI_SECTION_END[1])
  IN IF startIdx = 0 \/ endIdx = 0 \/ endIdx <= startIdx
     THEN LET trimmedBody == Trim(body)
          IN IF trimmedBody = <<>> THEN wrapped
             ELSE trimmedBody \o NL \o NL \o wrapped
     ELSE JoinNonEmpty(<<Slice(body, 1, startIdx - 1), wrapped,
                         Slice(body, endIdx + 1, Len(body))>>)

updatePiSection(body, newContent) ==
  LET wrapped == wrapInCollapsible(newContent)
      startIdx == IndexOf(body, PI_SECTION_START[1])
      endIdx == IndexOf(body, PI_SECTION_END[1])
  IN IF startIdx = 0 \/ endIdx = 0 \/ endIdx <= startIdx
     THEN LET trimmedBody == Trim(body)
          IN IF trimmedBody = <<>> THEN wrapped
             ELSE trimmedBody \o NL \o NL \o wrapped
     ELSE LET before == Trim(Slice(body, 1, startIdx - 1))
              after == Trim(Slice(body, endIdx + 1, Len(body)))
          IN JoinNonEmpty(<<before, wrapped, after>>)

\* ------------------------------------------------------------------ state
VARIABLES
  body,       \* issue body stored on GitHub
  prevBody,   \* the body the last codec operation was applied to
  notes,      \* the notes argument of the last codec operation
  op,         \* last codec operation: "create", "update" or "resave"
  baseBody,   \* the body before the current run of round-trip saves
  nUpdates,   \* number of updateIssueNotes calls so far
  nResaves,   \* number of consecutive round-trip saves
  viewed      \* details of the last "view" result, <<>> when none is current

codecVars == <<body, prevBody, notes, op, baseBody, nUpdates, nResaves, viewed>>

VARIABLES
  pc,         \* "idle", the external call execute is awaiting, "done" or "thrown"
  params,     \* parameters of the running gh_todo call
  aborted,    \* signal.aborted
  calls,      \* external calls started by the running execute, in order
  lateCall,   \* a call was started although the signal was already aborted
  loc,        \* local variables of execute and what its calls reported
  result,     \* the value execute returned
  entries     \* the session branch: entries with their labels

toolVars == <<pc, params, aborted, calls, lateCall, loc, result, entries>>

VARIABLES
  namedIssue,   \* the issue { number, title } the names are made for
  session,      \* result of getIssueSessionName
  queried,      \* the issueNumber argument of sessionMatchesIssue
  matched,      \* result of sessionMatchesIssue
  branch,       \* a branch name: from getIssueBranchName or any other
  branchFrom,   \* "issue" when branch came from getIssueBranchName
  parsed,       \* result of extractIssueNumberFromBranch
  nameOp        \* last naming function applied

nameVars == <<namedIssue, session, queried, matched, branch, branchFrom,
              parsed, nameOp>>

VARIABLES
  checkpoint,   \* result of findLastPrCheckpointEntryId
  afterId,      \* the id argument of getEntriesAfter
  after,        \* result of getEntriesAfter
  sessOp        \* last session function applied

sessVars == <<checkpoint, afterId, after, sessOp>>

VARIABLES
  gwFn,         \* the gateway function that is running or ran last
  gwPc,         \* the CLI call it is awaiting, "idle", "returned" or "thrown"
  gwCalls,      \* CLI calls issued by the running gateway function, in order
  remote,       \* the issue on GitHub: its state and revision
  current,      \* the issue fetched before the mutating call (updateIssueNotes)
  mutation,     \* outcome of the mutating call: "pending", "ok" or "failed"
  mutationRev,  \* revision of the remote issue right after the mutation
  gwResult      \* the snapshot the gateway function returned

gwVars == <<gwFn, gwPc, gwCalls, remote, current, mutation, mutationRev, gwResult>>

VARIABLES
  issues,        \* TodoListComponent.issues
  selectedIndex, \* TodoListComponent.selectedIndex
  viewMode,      \* TodoListComponent.viewMode
  statusMessage, \* TodoListComponent.statusMessage
  isLoading,     \* TodoListComponent.isLoading
  editorText,    \* text of TodoListComponent.editor
  addStep,       \* TodoListComponent.addStep
  newTitle,      \* TodoListComponent.newTitle
  newBody,       \* TodoListComponent.newBody
  open,          \* the dialog is on screen: done() has not been called
  closeCalls,    \* number of onClose invocations of this component
  pending,       \* the onAction call in flight, NoAction when none
  lastKey,       \* the last input delivered to handleInput
  before,        \* component fields when that input arrived
  dispatched,    \* onAction calls made while handling that input
  typedTitle,    \* the editor text submitted in the title step
  cachedWidth,   \* TodoListComponent.cachedWidth, 0 for undefined
  cachedLines    \* TodoListComponent.cachedLines, <<>> for undefined

uiVars == <<issues, selectedIndex, viewMode, statusMessage, isLoading,
            editorText, addStep, newTitle, newBody, open, closeCalls, pending,
            lastKey, before, dispatched, typedTitle, cachedWidth,
            cachedLines>>

VARIABLES
  genFn,         \* the summary generator that was called, "none" before
  genArgs,       \* what it was called with
  genPc,         \* where the call is: "idle", "model", "complete", "returned"
  genModel,      \* outcome of the model and API key lookup
  genResponse,   \* outcome of the completion call
  genResult      \* the string the generator returned

genVars == <<genFn, genArgs, genPc, genModel, genResponse, genResult>>

VARIABLES
  strategy,      \* getCommitStrategy(): "per-interaction" or "per-turn"
  inGitRepo,     \* auto-commit: inGitRepo
  assistantText, \* auto-commit: assistantText
  userPrompt,    \* auto-commit: userPrompt
  probe,         \* outcome of the last git rev-parse --git-dir: "none", "ok", "failed"
  hostPc,        \* where the host is in its event order
  prompt,        \* event.prompt of the current interaction
  turns,         \* turn_end events of the current interaction
  tried,         \* performCommit calls of the current interaction, by event
  lastEvent,     \* the handler that ran last
  gitRan,        \* git subcommands that handler ran
  committed,     \* the message that handler passed to git commit, <<>> for none
  viaHaiku,      \* whether that message holds a generated summary
  log,           \* subjects of the commits on the branch, oldest first
  undo           \* what the last /undo saw and did

acVars == <<strategy, inGitRepo, assistantText, userPrompt, probe, hostPc,
            prompt, turns, tried, lastEvent, gitRan, committed, viaHaiku, log,
            undo>>

VARIABLES
  ctxFn,          \* the context gatherer that is running, "none" before
  ctxPc,          \* "idle", "loop" or "returned"
  sessionContext, \* length of the gatherer's sessionContext string
  ctxEntry,       \* the entry the loop looked at last
  added,          \* number of characters that entry added
  ctxOut          \* length of the returned string, NoNumber before the return

ctxVars == <<ctxFn, ctxPc, sessionContext, ctxEntry, added, ctxOut>>

VARIABLES
  wzPc,          \* /todo-pr: the call the handler is waiting for, "idle", "done"
  wz,            \* /todo-pr: the handler's local constants
  wzCalls,       \* /todo-pr: gateway, UI and generator calls made, in order
  templateFile,  \* what findPrTemplate(pi) resolves to in this repository
  wzExit         \* /todo-pr: how the handler ended

wzVars == <<wzPc, wz, wzCalls, templateFile, wzExit>>

VARIABLES
  rdFn,          \* the reading gateway function that is running or ran last
  rdPc,          \* the CLI call it is awaiting, "idle", "returned" or "thrown"
  rdReplies,     \* what the CLI calls of this run resolved with, in order
  rdOut,         \* the value the function returned
  rdError        \* the message of the error it raised, "none" when none

rdVars == <<rdFn, rdPc, rdReplies, rdOut, rdError>>

VARIABLES
  nuPc,          \* updateIssueNotes: the CLI call awaited, "idle", "returned", "thrown"
  nuRemote,      \* the issue body stored on GitHub
  nuCurrent,     \* current.body, the body the first getIssue returned
  nuNotes,       \* the notes argument
  nuUnread,      \* texts another writer added after that getIssue returned
  nuEdits,       \* number of edits by other writers so far
  nuResult       \* body of the issue updateIssueNotes returned

nuVars == <<nuPc, nuRemote, nuCurrent, nuNotes, nuUnread, nuEdits, nuResult>>

VARIABLES
  corName,       \* a session name
  corNumber,     \* an issue number
  corExtracted,  \* result of extractIssueNumberFromSession(corName)
  corMatched,    \* result of sessionMatchesIssue(corName, corNumber)
  corPc          \* which of the two functions have been applied

corVars == <<corName, corNumber, corExtracted, corMatched, corPc>>

VARIABLES
  usPc,          \* generatePrUpdateSummary: "idle", "model", "complete", "returned"
  usContext,     \* scopedContext
  usCommits,     \* commits, as their hashes
  usResponse,    \* the text of the completion, line by line
  usResult       \* the comment generatePrUpdateSummary returned, line by line

usVars == <<usPc, usContext, usCommits, usResponse, usResult>>

VARIABLES
  ghHist,        \* the session branch, entries with the shape of their message
  ghPc,          \* "idle" or "gathered"
  ghFull,        \* gatherSessionContext over the entries after the checkpoint
  ghScoped       \* gatherScopedSessionContext over the branch

ghVars == <<ghHist, ghPc, ghFull, ghScoped>>

VARIABLES
  qaN,           \* /qa: number of extracted questions
  qaAnswers,     \* /qa: state.answers, Null where the map has no entry
  qaIndex,       \* /qa: state.currentIndex
  qaEditor,      \* /qa: text in the editor
  qaDone,        \* /qa: "idle", "open", or what done() was called with
  qaKey,         \* /qa: the last input
  qaBefore       \* /qa: answers, index and editor text when that input arrived

qaVars == <<qaN, qaAnswers, qaIndex, qaEditor, qaDone, qaKey, qaBefore>>

lateVars == <<rdVars, nuVars, corVars, usVars, ghVars, qaVars>>
moreVars == <<genVars, acVars, ctxVars, wzVars, lateVars>>
utilVars == <<nameVars, sessVars, gwVars, uiVars, moreVars>>
vars == <<codecVars, toolVars, utilVars>>


\* ------------------------------------------------------ gh_todo tool: state
Undefined == "undefined"
\* an absent number (undefined parameter, null parse result)
NoNumber == -1
NoResult == [text |-> <<>>, action |-> Undefined, error |-> Undefined,
             isError |-> FALSE, commentOnly |-> Undefined]
NoParams == [action |-> Undefined, number |-> NoNumber, title |-> Undefined,
             body |-> Undefined]
NoLocals == [currentBranch |-> <<>>, sessionName |-> <<>>, issueNumber |-> NoNumber,
             issueState |-> Undefined, dirty |-> Undefined, pr |-> Undefined,
             checkpointId |-> 0, hasCommits |-> Undefined,
             hasContext |-> Undefined,
             pushed |-> FALSE, prCreated |-> FALSE, commentPosted |-> FALSE,
             failed |-> FALSE]

ToolIdle ==
  /\ pc = "idle"
  /\ params = NoParams
  /\ aborted = FALSE
  /\ calls = <<>>
  /\ lateCall = FALSE
  /\ loc = NoLocals
  /\ result = NoResult
  /\ entries = <<>>

CodecIdle ==
  /\ body = <<>>
  /\ prevBody = <<>>
  /\ notes = <<>>
  /\ op = "create"
  /\ baseBody = <<>>
  /\ nUpdates = 0
  /\ nResaves = 0
  /\ viewed = <<>>

\* --------------------------------------------- naming, session, gateway, UI
NoIssue == [number |-> NoNumber, title |-> <<>>]
NameIdle ==
  /\ namedIssue = NoIssue
  /\ session = <<>>
  /\ queried = NoNumber
  /\ matched = FALSE
  /\ branch = <<>>
  /\ branchFrom = "none"
  /\ parsed = NoNumber
  /\ nameOp = "none"

SessIdle ==
  /\ checkpoint = 0
  /\ afterId = 0
  /\ after = <<>>
  /\ sessOp = "none"

NoSnapshot == [state |-> Undefined, rev |-> NoNumber]
GwIdle ==
  /\ gwFn = "none"
  /\ gwPc = "idle"
  /\ gwCalls = <<>>
  /\ remote = [state |-> "open", rev |-> 0]
  /\ current = NoSnapshot
  /\ mutation = "pending"
  /\ mutationRev = NoNumber
  /\ gwResult = NoSnapshot

NoAction == [action |-> "none", issue |-> 0, title |-> <<>>, body |-> <<>>,
             loading |-> FALSE]
Component ==
  [issues |-> issues, selectedIndex |-> selectedIndex, viewMode |-> viewMode,
   statusMessage |-> statusMessage, isLoading |-> isLoading,
   editorText |-> editorText, addStep |-> addStep, newTitle |-> newTitle,
   newBody |-> newBody]

\* no /todo dialog has been opened
UiIdle ==
  /\ issues = <<>>
  /\ selectedIndex = 0
  /\ viewMode = "list"
  /\ statusMessage = "none"
  /\ isLoading = FALSE
  /\ editorText = <<>>
  /\ addStep = "title"
  /\ newTitle = <<>>
  /\ newBody = <<>>
  /\ open = FALSE
  /\ closeCalls = 0
  /\ pending = NoAction
  /\ lastKey = "none"
  /\ before = Component
  /\ dispatched = <<>>
  /\ typedTitle = <<>>
  /\ cachedWidth = 0
  /\ cachedLines = <<>>

NoArgs == [context |-> FALSE, commits |-> FALSE, close |-> FALSE]

GenIdle ==
  /\ genFn = "none"
  /\ genArgs = NoArgs
  /\ genPc = "idle"
  /\ genModel = "unasked"
  /\ genResponse = "unasked"
  /\ genResult = <<>>

NoTries == [turn_end |-> 0, agent_end |-> 0, session_shutdown |-> 0]
NoUndo == [ran |-> FALSE, inRepo |-> FALSE, logOk |-> FALSE, subject |-> <<>>,
           hasUI |-> FALSE, asked |-> FALSE, proceed |-> FALSE, reset |-> FALSE]

AcIdle ==
  /\ strategy = "per-interaction"
  /\ inGitRepo = FALSE
  /\ assistantText = <<>>
  /\ userPrompt = <<>>
  /\ probe = "none"
  /\ hostPc = "start"
  /\ prompt = <<>>
  /\ turns = 0
  /\ tried = NoTries
  /\ lastEvent = "none"
  /\ gitRan = {}
  /\ committed = <<>>
  /\ viaHaiku = FALSE
  /\ log = <<>>
  /\ undo = NoUndo

NoEntry == [kind |-> "none", len |-> 0]

CtxIdle ==
  /\ ctxFn = "none"
  /\ ctxPc = "idle"
  /\ sessionContext = 0
  /\ ctxEntry = NoEntry
  /\ added = 0
  /\ ctxOut = NoNumber

NoWizard ==
  [currentBranch |-> <<>>, sessionName |-> <<>>, issueNumber |-> NoNumber,
   issueState |-> Undefined, dirty |-> Undefined, proceed |-> Undefined,
   upstream |-> Undefined, pushed |-> FALSE, closeChoice |-> "none",
   shouldClose |-> FALSE, template |-> <<>>, bodyBy |-> "none",
   editedBody |-> <<>>, confirmChoice |-> "none"]

WzIdle ==
  /\ wzPc = "idle"
  /\ wz = NoWizard
  /\ wzCalls = <<>>
  /\ templateFile = Null
  /\ wzExit = "none"

\* parseIssue's null
NullIssue == [number |-> NoNumber, state |-> Undefined]
NoOut == [issues |-> <<>>, issue |-> NullIssue, reviewComments |-> <<>>,
          conversationComments |-> <<>>]

RdIdle ==
  /\ rdFn = "none"
  /\ rdPc = "idle"
  /\ rdReplies = <<>>
  /\ rdOut = NoOut
  /\ rdError = "none"

NuIdle ==
  /\ nuPc = "idle"
  /\ nuRemote = <<>>
  /\ nuCurrent = <<>>
  /\ nuNotes = <<>>
  /\ nuUnread = {}
  /\ nuEdits = 0
  /\ nuResult = <<>>

CorIdle ==
  /\ corName = <<>>
  /\ corNumber = 0
  /\ corExtracted = NoNumber
  /\ corMatched = FALSE
  /\ corPc = "idle"

UsIdle ==
  /\ usPc = "idle"
  /\ usContext = <<>>
  /\ usCommits = <<>>
  /\ usResponse = <<>>
  /\ usResult = <<>>

GhIdle ==
  /\ ghHist = <<>>
  /\ ghPc = "idle"
  /\ ghFull = <<>>
  /\ ghScoped = <<>>

QaState == [answers |-> qaAnswers, currentIndex |-> qaIndex, editor |-> qaEditor]

QaIdle ==
  /\ qaN = 0
  /\ qaAnswers = <<>>
  /\ qaIndex = 0
  /\ qaEditor = <<>>
  /\ qaDone = "idle"
  /\ qaKey = "none"
  /\ qaBefore = QaState

LateIdle == RdIdle /\ NuIdle /\ CorIdle /\ UsIdle /\ GhIdle /\ QaIdle

MoreIdle == GenIdle /\ AcIdle /\ CtxIdle /\ WzIdle /\ LateIdle

UtilIdle == NameIdle /\ SessIdle /\ GwIdle /\ UiIdle /\ MoreIdle


\* createIssue: the body is user content written by a person
InitCodec ==
  /\ body \in SeqsUpTo(BodyAlphabet, MaxBodyLen)
  /\ prevBody = body
  /\ notes = <<>>
  /\ op = "create"
  /\ baseBody = body
  /\ nUpdates = 0
  /\ nResaves = 0
  /\ viewed = <<>>
  /\ ToolIdle
  /\ UtilIdle

\* updateIssueNotes: fetch the body, replace the section, push the new body
UpdateIssueNotes(n) ==
  /\ nUpdates < MaxUpdates
  /\ nResaves = 0
  /\ body' = updatePiSection(body, n)
  /\ baseBody' = updatePiSection(body, n)
  /\ prevBody' = body
  /\ notes' = n
  /\ op' = "update"
  /\ nUpdates' = nUpdates + 1
  /\ nResaves' = 0
  /\ viewed' = <<>>
  /\ UNCHANGED <<toolVars, utilVars>>

\* the round trip updatePiSection(body, extractPiSection(body) ?? "")
Resave ==
  /\ nResaves < MaxResaves
  /\ LET n == IF extractPiSection(body) = Null THEN <<>> ELSE extractPiSection(body)
     IN /\ body' = updatePiSection(body, n)
        /\ notes' = n
  /\ prevBody' = body
  /\ op' = "resave"
  /\ nResaves' = nResaves + 1
  /\ viewed' = <<>>
  /\ UNCHANGED <<baseBody, nUpdates>>
  /\ UNCHANGED <<toolVars, utilVars>>

\* the "view" action of the tool: split the fetched body into its two zones
View ==
  /\ viewed = <<>>
  /\ viewed' = [userContent |-> extractUserContent(body),
                agentNotes |-> extractPiSection(body)]
  /\ UNCHANGED <<body, prevBody, notes, op, baseBody, nUpdates, nResaves>>
  /\ UNCHANGED <<toolVars, utilVars>>

NextCodec ==
  \/ \E n \in SeqsUpTo(NotesAlphabet, MaxNotesLen) : UpdateIssueNotes(n)
  \/ Resave
  \/ View

SpecCodec == InitCodec /\ [][NextCodec]_vars

\* ------------------------------------------------- section codec: claims
MarkerAt(s, tok) == {i \in 1..Len(s) : s[i] = tok}
Contains(s, tok) == MarkerAt(s, tok) # {}
MinOf(S) == CHOOSE a \in S : \A b \in S : a <= b
NoMarkers(b) == ~Contains(b, PI_SECTION_START[1]) /\ ~Contains(b, PI_SECTION_END[1])
\* the first end marker comes after the first start marker
ValidSpan(b) ==
  /\ Contains(b, PI_SECTION_START[1])
  /\ Contains(b, PI_SECTION_END[1])
  /\ MinOf(MarkerAt(b, PI_SECTION_END[1])) > MinOf(MarkerAt(b, PI_SECTION_START[1]))
\* at most one section: no marker at all, or one start followed by one end
OneSection(b) ==
  \/ NoMarkers(b)
  \/ /\ ValidSpan(b)
     /\ Cardinality(MarkerAt(b, PI_SECTION_START[1])) = 1
     /\ Cardinality(MarkerAt(b, PI_SECTION_END[1])) = 1
\* no marker follows the end marker of a valid section
NoLateMarker(b) ==
  ValidSpan(b) =>
    \A i \in (MinOf(MarkerAt(b, PI_SECTION_END[1])) + 1)..Len(b) :
      b[i] \notin {PI_SECTION_START[1], PI_SECTION_END[1]}
\* extractPiSection(b) ?? ""
SectionText(b) == IF extractPiSection(b) = Null THEN <<>> ELSE extractPiSection(b)

\* C1 (as stated): after updateIssueNotes wrote notes n, extractPiSection of
\* the new body is n trimmed, for every body and every n.
C1_Original ==
  op = "update" => extractPiSection(body) = Trim(notes)

C1_Pre ==
  /\ NoMarkers(prevBody) \/ ValidSpan(prevBody)
  /\ Trim(notes) # <<>>
  /\ ~Contains(notes, PI_SECTION_END[1])
  /\ ~Contains(notes, DetailsClose[1])

\* C1 (amended): when the body had no marker or a validly ordered marker pair
\* and the notes are not blank and contain neither the end marker nor a
\* </details> tag, extractPiSection of the updated body is the notes trimmed.
C1_RoundTrip ==
  (op = "update" /\ C1_Pre) => extractPiSection(body) = Trim(notes)

C1_Witness ==
  /\ op = "update"
  /\ C1_Pre
  /\ ValidSpan(prevBody)
  /\ extractUserContent(prevBody) # <<>>
  /\ extractPiSection(body) = Trim(notes)

\* C2 (as stated): a notes update never alters the user content, for every
\* body and every n.
C2_Original ==
  op = "update" => extractUserContent(body) = extractUserContent(prevBody)

C2_Pre ==
  /\ OneSection(prevBody)
  /\ ~Contains(notes, PI_SECTION_END[1])

\* C2 (amended): when the body holds at most one section (no marker, or exactly
\* one start marker followed by exactly one end marker) and the notes do not
\* contain the end marker, the update leaves extractUserContent unchanged.
C2_UserContentKept ==
  (op = "update" /\ C2_Pre) => extractUserContent(body) = extractUserContent(prevBody)

C2_Witness ==
  /\ op = "update"
  /\ C2_Pre
  /\ ValidSpan(prevBody)
  /\ Trim(notes) # <<>>
  /\ extractUserContent(prevBody) # <<>>
  /\ body # prevBody

\* the markers are missing or out of order
Malformed(b) ==
  \/ ~Contains(b, PI_SECTION_START[1])
  \/ ~Contains(b, PI_SECTION_END[1])
  \/ \E j \in MarkerAt(b, PI_SECTION_END[1]) :
       \A i \in MarkerAt(b, PI_SECTION_START[1]) : j < i

\* C9: when the start or end marker is missing, or the first end marker does
\* not come after the first start marker, the section reads as absent and the
\* user content is the whole body trimmed.
C9_MalformedIsUserContent ==
  (viewed # <<>> /\ Malformed(body)) =>
    /\ viewed.agentNotes = Null
    /\ viewed.userContent = Trim(body)

C9_Witness ==
  /\ viewed # <<>>
  /\ Contains(body, PI_SECTION_START[1])
  /\ Contains(body, PI_SECTION_END[1])
  /\ Malformed(body)
  /\ Trim(body) # body

\* C10 (as stated): for every body the round trip is idempotent (a second
\* application returns the same body) and keeps section text and user content.
C10_Original ==
  op = "resave" =>
    /\ nResaves >= 2 => body = prevBody
    /\ SectionText(body) = SectionText(baseBody)
    /\ extractUserContent(body) = extractUserContent(baseBody)

\* C10 (amended): for every body in which no marker follows the end marker of
\* a valid section, a second round trip returns the first one's result up to
\* leading and trailing whitespace (exactly, when the section text is not
\* empty), and section text and user content are those of the original body.
C10_RoundTripStable ==
  (op = "resave" /\ NoLateMarker(baseBody)) =>
    /\ nResaves >= 2 => Trim(body) = Trim(prevBody)
    /\ (nResaves >= 2 /\ SectionText(baseBody) # <<>>) => body = prevBody
    /\ SectionText(body) = SectionText(baseBody)
    /\ extractUserContent(body) = extractUserContent(baseBody)

C10_Witness ==
  /\ op = "resave"
  /\ nResaves >= 2
  /\ NoLateMarker(baseBody)
  /\ ValidSpan(baseBody)
  /\ SectionText(baseBody) # <<>>
  /\ extractUserContent(baseBody) # <<>>
  /\ body = prevBody

\* C11: wrapInCollapsible returns the empty string for empty or
\* whitespace-only notes, and a body that consists only of that output has no
\* section: extractPiSection returns absent.
C11_EmptySectionAbsent ==
  (op = "update" /\ Trim(notes) = <<>>) =>
    /\ wrapInCollapsible(notes) = <<>>
    /\ extractPiSection(wrapInCollapsible(notes)) = Null
    /\ Trim(prevBody) = <<>> =>
         (body = wrapInCollapsible(notes) /\ extractPiSection(body) = Null)

C11_Witness ==
  /\ op = "update"
  /\ notes # <<>>
  /\ Trim(notes) = <<>>
  /\ Trim(prevBody) = <<>>
  /\ body = <<>>
  /\ viewed # <<>>
  /\ viewed.agentNotes = Null

\* ------------------------------------------------------------------ naming
Digits == {"0", "1", "2", "3", "4", "5", "6", "7", "8", "9"}
DigitValue(c) ==
  CASE c = "0" -> 0 [] c = "1" -> 1 [] c = "2" -> 2 [] c = "3" -> 3 [] c = "4" -> 4
    [] c = "5" -> 5 [] c = "6" -> 6 [] c = "7" -> 7 [] c = "8" -> 8 [] OTHER -> 9

\* end of the run of digits that starts at position from (from - 1 when empty)
DigitsEnd(s, from) ==
  IF \E k \in from..Len(s) : s[k] \notin Digits
  THEN (CHOOSE k \in from..Len(s) :
          s[k] \notin Digits /\ \A j \in from..(k-1) : s[j] \in Digits) - 1
  ELSE Len(s)

\* parseInt(digits, 10)
RECURSIVE ParseInt(_)
ParseInt(ds) ==
  IF ds = <<>> THEN 0
  ELSE 10 * ParseInt(SubSeq(ds, 1, Len(ds) - 1)) + DigitValue(ds[Len(ds)])

\* extractIssueNumberFromSession reading a single digit
extractIssueNumberFromSession_oneDigit(sessionName) ==
  IF sessionName = <<>> THEN NoNumber
  ELSE LET e == DigitsEnd(sessionName, 2)
       IN IF /\ sessionName[1] = "#"
             /\ e >= 2
             /\ e < Len(sessionName)
             /\ sessionName[e + 1] = ":"
          THEN ParseInt(SubSeq(sessionName, 2, 2))
          ELSE NoNumber

\* sessionName.match(/^#(\d+):/)
extractIssueNumberFromSession(sessionName) ==
  IF sessionName = <<>> THEN NoNumber
  ELSE LET e == DigitsEnd(sessionName, 2)
       IN IF /\ sessionName[1] = "#"
             /\ e >= 2
             /\ e < Len(sessionName)
             /\ sessionName[e + 1] = ":"
          THEN ParseInt(SubSeq(sessionName, 2, e))
          ELSE NoNumber

\* extractIssueNumberFromBranch reading a single digit
extractIssueNumberFromBranch_oneDigit(branchName) ==
  IF branchName = <<>> THEN NoNumber
  ELSE LET e == DigitsEnd(branchName, 2)
       IN IF /\ branchName[1] = "todo/"
             /\ e >= 2
             /\ e < Len(branchName)
             /\ branchName[e + 1] = "-"
          THEN ParseInt(SubSeq(branchName, 2, 2))
          ELSE NoNumber

\* branchName.match(/^todo\/(\d+)-/); "todo/" is one token
extractIssueNumberFromBranch(branchName) ==
  IF branchName = <<>> THEN NoNumber
  ELSE LET e == DigitsEnd(branchName, 2)
       IN IF /\ branchName[1] = "todo/"
             /\ e >= 2
             /\ e < Len(branchName)
             /\ branchName[e + 1] = "-"
          THEN ParseInt(SubSeq(branchName, 2, e))
          ELSE NoNumber

\* isMainBranch accepting only "main"
isMainBranch_mainOnly(branchName) == branchName = <<"main">>

isMainBranch(branchName) == branchName = <<"main">> \/ branchName = <<"master">>

\* branch and session names the host may report
BranchNames == {<<"main">>, <<"master">>, <<"feature">>,
                <<"todo/", "1", "-", "fix">>, <<"todo/", "2", "-", "fix">>}
SessionNames == {<<>>, <<"#", "1", ":", " ", "fix">>, <<"#", "2", ":", " ", "fix">>}

\* ------------------------------------------------------- session checkpoints
PR_LABEL_CREATED == "pr-created"
PR_LABEL_UPDATED == "pr-update"

\* findLastPrCheckpointEntryId returning the last entry whatever its label
findLastPrCheckpointEntryId_anyEntry(es) == Len(es)

\* findLastPrCheckpointEntryId scanning oldest-first
findLastPrCheckpointEntryId_oldest(es) ==
  LET labelled == {i \in 1..Len(es) :
                     es[i].label = PR_LABEL_CREATED \/ es[i].label = PR_LABEL_UPDATED}
  IN IF labelled = {} THEN 0
     ELSE CHOOSE i \in labelled : \A j \in labelled : j >= i

\* entry ids are positions in the branch; 0 stands for null
findLastPrCheckpointEntryId(es) ==
  LET labelled == {i \in 1..Len(es) :
                     es[i].label = PR_LABEL_CREATED \/ es[i].label = PR_LABEL_UPDATED}
  IN IF labelled = {} THEN 0
     ELSE CHOOSE i \in labelled : \A j \in labelled : j <= i

\* getEntriesAfter keeping the checkpoint entry itself
getEntriesAfter_inclusive(es, afterEntryId) ==
  IF afterEntryId = 0 THEN es
  ELSE IF afterEntryId \notin 1..Len(es) THEN es
  ELSE SubSeq(es, afterEntryId, Len(es))

getEntriesAfter(es, afterEntryId) ==
  IF afterEntryId = 0 THEN es
  ELSE IF afterEntryId \notin 1..Len(es) THEN es
  ELSE SubSeq(es, afterEntryId + 1, Len(es))

\* the lines rendered for the entries after the last checkpoint: user and
\* assistant messages are rendered, gh_todo tool results are not
RECURSIVE RenderEntries(_)
RenderEntries(es) ==
  IF es = <<>> THEN <<>>
  ELSE (IF Head(es).type = "message" THEN <<"User: text">> ELSE <<>>)
       \o RenderEntries(Tail(es))

gatherScopedSessionContext(es) ==
  RenderEntries(getEntriesAfter(es, findLastPrCheckpointEntryId(es)))

\* ------------------------------------------------------ gh_todo tool: execute
Actions == {"list", "add", "view", "plan", "start", "close", "reopen", "update",
            "pr", "feedback", "pr-update"}
\* the parameter combinations execute is called with; "bogus" is an action
\* outside the enumeration
ParamChoices ==
  [action : {"list", "pr", "feedback", "pr-update", "bogus"},
   number : {NoNumber}, title : {Undefined}, body : {Undefined}]
  \cup [action : {"pr"}, number : {0, 1}, title : {Undefined}, body : {Undefined}]
  \cup [action : {"add"}, number : {NoNumber}, title : {Undefined, "", "text"},
        body : {Undefined}]
  \cup [action : {"view", "plan", "start", "close", "reopen"}, number : {NoNumber, 1},
        title : {Undefined}, body : {Undefined}]
  \cup [action : {"update"}, number : {NoNumber, 1}, title : {Undefined},
        body : {Undefined, "", "text"}]

\* the results execute returns; text is the message split into words
GhMissingResult(action) ==
  [text |-> <<"Error:", "GitHub CLI (gh) is not installed or not in PATH">>,
   action |-> action, error |-> "gh CLI not found", isError |-> TRUE,
   commentOnly |-> Undefined]
CancelledEarlyResult(action) ==
  [text |-> <<"Cancelled">>, action |-> action, error |-> "Cancelled",
   isError |-> FALSE, commentOnly |-> Undefined]
CancelledResult(action) ==
  [text |-> <<"Cancelled">>, action |-> action, error |-> Undefined,
   isError |-> FALSE, commentOnly |-> Undefined]
PreconditionError(action, error) ==
  [text |-> <<"Error:", error>>, action |-> action, error |-> error,
   isError |-> TRUE, commentOnly |-> Undefined]
OkResult(action) ==
  [text |-> <<"ok">>, action |-> action, error |-> Undefined,
   isError |-> FALSE, commentOnly |-> Undefined]
UnknownActionResult(action) ==
  [text |-> <<"Unknown", "action:", action>>, action |-> "list",
   error |-> "unknown action", isError |-> TRUE, commentOnly |-> Undefined]
\* the catch block's result without the error flag
ErrorMessageResult_noFlag(action) ==
  [text |-> <<"Error:", "{message}">>, action |-> action, error |-> "{message}",
   isError |-> FALSE, commentOnly |-> Undefined]
ErrorMessageResult(action) ==
  [text |-> <<"Error:", "{message}">>, action |-> action, error |-> "{message}",
   isError |-> TRUE, commentOnly |-> Undefined]
NothingToUpdateResult ==
  [text |-> <<"Nothing", "to", "update">>, action |-> "pr-update", error |-> Undefined,
   isError |-> FALSE, commentOnly |-> Undefined]
PushFailedResult ==
  [text |-> <<"Error", "pushing", "branch:", "{message}">>, action |-> "pr-update",
   error |-> "push failed: {message}", isError |-> TRUE, commentOnly |-> Undefined]
CommentFailedResult(hasCommits) ==
  [text |-> IF hasCommits
            THEN <<"Pushed", "changes", "but", "failed", "to", "post", "comment:", "{message}">>
            ELSE <<"Failed", "to", "post", "comment:", "{message}">>,
   action |-> "pr-update", error |-> "comment failed: {message}",
   isError |-> ~hasCommits, commentOnly |-> Undefined]
PrUpdatedResult(commentOnly) ==
  [text |-> <<"ok">>, action |-> "pr-update", error |-> Undefined, isError |-> FALSE,
   commentOnly |-> IF commentOnly THEN "true" ELSE "false"]

\* start the next awaited call
Goto(call, l) ==
  /\ pc' = call
  /\ calls' = Append(calls, call)
  /\ lateCall' = (lateCall \/ aborted)
  /\ loc' = l
  /\ UNCHANGED <<params, aborted, result, entries, codecVars, utilVars>>

\* return from execute
Return(r, l) ==
  /\ pc' = "done"
  /\ result' = r
  /\ loc' = l
  /\ UNCHANGED <<params, aborted, calls, lateCall, entries, codecVars, utilVars>>

\* the awaited call threw inside the try block: the outer catch
Caught ==
  Return(IF aborted THEN CancelledEarlyResult(params.action)
         ELSE ErrorMessageResult(params.action),
         [loc EXCEPT !.failed = TRUE])

Cancelled == Return(CancelledResult(params.action), loc)

Awaiting(action, call) == pc = call /\ params.action = action

\* the host calls execute with a fresh signal
Invoke ==
  /\ pc = "idle"
  /\ Len(entries) < MaxEntries
  /\ \E p \in ParamChoices : params' = p
  /\ pc' = "checkGhCli"
  /\ calls' = <<"checkGhCli">>
  /\ aborted' = FALSE
  /\ lateCall' = FALSE
  /\ loc' = NoLocals
  /\ result' = NoResult
  /\ UNCHANGED <<entries, codecVars, utilVars>>

\* the user interrupts the running tool call
Abort ==
  /\ pc \notin {"idle", "done", "thrown", "labelled"}
  /\ ~aborted
  /\ aborted' = TRUE
  /\ UNCHANGED <<pc, params, calls, lateCall, loc, result, entries, codecVars, utilVars>>

\* !params.title in case "add"
TitleMissing_onlyUndefined(p) == p.title = Undefined
TitleMissing(p) == p.title \in {Undefined, ""}

\* the switch up to the first await of each case
Dispatch ==
  LET a == params.action
      NumberRequired == Return(PreconditionError(a, "number required"), loc)
  IN CASE a = "list" -> Goto("listIssues", loc)
       [] a = "add" ->
            IF TitleMissing(params)
            THEN Return(PreconditionError(a, "title required"), loc)
            ELSE Goto("createIssue", loc)
       [] a \in {"view", "plan", "start"} ->
            IF params.number = NoNumber THEN NumberRequired ELSE Goto("getIssue", loc)
       [] a = "close" ->
            IF params.number = NoNumber THEN NumberRequired ELSE Goto("closeIssue", loc)
       [] a = "reopen" ->
            IF params.number = NoNumber THEN NumberRequired ELSE Goto("reopenIssue", loc)
       [] a = "update" ->
            IF params.number = NoNumber THEN NumberRequired
            ELSE IF params.body \in {Undefined, ""}
            THEN Return(PreconditionError(a, "body required"), loc)
            ELSE Goto("updateIssueNotes", loc)
       [] a \in {"pr", "feedback", "pr-update"} -> Goto("getCurrentBranch", loc)
       [] OTHER -> Return(UnknownActionResult(a), loc)

\* checkGhCli is awaited before the try block
CheckGhCliReturns ==
  /\ pc = "checkGhCli"
  /\ \/ /\ pc' = "thrown"
        /\ loc' = [loc EXCEPT !.failed = TRUE]
        /\ UNCHANGED <<params, aborted, calls, lateCall, result, entries, codecVars, utilVars>>
     \/ Return(GhMissingResult(params.action), [loc EXCEPT !.failed = TRUE])
     \/ IF aborted THEN Return(CancelledEarlyResult(params.action), loc)
        ELSE Dispatch

\* list, add, view, plan, close, reopen, update: one gateway call, then return
SimpleCallReturns ==
  /\ \/ Awaiting("list", "listIssues")
     \/ Awaiting("add", "createIssue")
     \/ Awaiting("view", "getIssue")
     \/ Awaiting("plan", "getIssue")
     \/ Awaiting("close", "closeIssue")
     \/ Awaiting("reopen", "reopenIssue")
     \/ Awaiting("update", "updateIssueNotes")
  /\ \/ Caught
     \/ Return(OkResult(params.action), loc)

\* ---------------------------------------------------------------- case "start"
Start_GetIssue ==
  /\ Awaiting("start", "getIssue")
  /\ \/ Caught
     \/ \E st \in {"open", "closed"} :
          IF aborted THEN Cancelled
          ELSE Goto("getCurrentBranch",
                    [loc EXCEPT !.issueState = st, !.issueNumber = params.number])

Start_GetCurrentBranch ==
  /\ Awaiting("start", "getCurrentBranch")
  /\ \/ Caught
     \/ \E b \in BranchNames :
          LET l == [loc EXCEPT !.currentBranch = b]
          IN IF aborted THEN Return(CancelledResult(params.action), l)
             ELSE IF isMainBranch(b) THEN Goto("hasUncommittedChanges", l)
             ELSE Goto("SessionManager.listAll", l)

\* uncommitted changes reported but not returned on
Start_HasUncommittedChanges_goesOn ==
  /\ Awaiting("start", "hasUncommittedChanges")
  /\ \/ Caught
     \/ \E d \in {"true", "false"} :
          LET l == [loc EXCEPT !.dirty = d]
          IN IF aborted THEN Return(CancelledResult(params.action), l)
             ELSE Goto("pullBranch", l)

Start_HasUncommittedChanges ==
  /\ Awaiting("start", "hasUncommittedChanges")
  /\ \/ Caught
     \/ Return(PreconditionError("start", "uncommitted changes"),
               [loc EXCEPT !.dirty = "true"])
     \/ LET l == [loc EXCEPT !.dirty = "false"]
        IN IF aborted THEN Return(CancelledResult(params.action), l)
           ELSE Goto("pullBranch", l)

\* a failed pull is caught locally and reported as a warning
Start_PullBranch ==
  /\ Awaiting("start", "pullBranch")
  /\ \E l \in {loc, [loc EXCEPT !.failed = TRUE]} :
       IF aborted THEN Return(CancelledResult(params.action), l)
       ELSE Goto("branchExists", l)

Start_BranchExists ==
  /\ Awaiting("start", "branchExists")
  /\ \/ Caught
     \/ Goto("checkoutBranch", loc)
     \/ Goto("checkoutNewBranch", loc)

Start_Checkout ==
  /\ \/ Awaiting("start", "checkoutBranch")
     \/ Awaiting("start", "checkoutNewBranch")
  /\ \/ Caught
     \/ Goto("SessionManager.listAll", loc)

Start_ListSessions ==
  /\ Awaiting("start", "SessionManager.listAll")
  /\ \/ Caught
     \/ Return(OkResult("start"), loc)

\* ------------------------------------------------------------------- case "pr"
\* params.number ?? sessionIssueNum ?? branchIssueNum
FirstNumber(a, b, c) == IF a # NoNumber THEN a ELSE IF b # NoNumber THEN b ELSE c

Pr_GetCurrentBranch ==
  /\ Awaiting("pr", "getCurrentBranch")
  /\ \/ Caught
     \/ \E b \in BranchNames, sn \in SessionNames :
          LET sessionIssueNum == extractIssueNumberFromSession(sn)
              branchIssueNum == extractIssueNumberFromBranch(b)
              issueNumber == FirstNumber(params.number, sessionIssueNum, branchIssueNum)
              l == [loc EXCEPT !.currentBranch = b, !.sessionName = sn,
                               !.issueNumber = issueNumber]
          IN IF aborted THEN Return(CancelledResult(params.action), l)
             ELSE IF isMainBranch(b)
             THEN Return(PreconditionError("pr", "on main branch"), l)
             ELSE IF /\ branchIssueNum # NoNumber
                     /\ sessionIssueNum # NoNumber
                     /\ branchIssueNum # sessionIssueNum
             THEN Return(PreconditionError("pr", "branch/session mismatch"), l)
             ELSE IF issueNumber = NoNumber \/ issueNumber = 0
             THEN Return(PreconditionError("pr", "no issue number"), l)
             ELSE Goto("getIssue", l)

Pr_GetIssue ==
  /\ Awaiting("pr", "getIssue")
  /\ \/ Caught
     \/ \E st \in {"open", "closed"} :
          LET l == [loc EXCEPT !.issueState = st]
          IN IF aborted THEN Return(CancelledResult(params.action), l)
             ELSE IF st = "closed"
             THEN Return(PreconditionError("pr", "issue closed"), l)
             ELSE Goto("hasUncommittedChanges", l)

Pr_HasUncommittedChanges ==
  /\ Awaiting("pr", "hasUncommittedChanges")
  /\ \/ Caught
     \/ Return(PreconditionError("pr", "uncommitted changes"),
               [loc EXCEPT !.dirty = "true"])
     \/ LET l == [loc EXCEPT !.dirty = "false"]
        IN IF aborted THEN Return(CancelledResult(params.action), l)
           ELSE Goto("hasUpstream", l)

\* without an upstream the push is started right away
Pr_HasUpstream ==
  /\ Awaiting("pr", "hasUpstream")
  /\ \/ Caught
     \/ Goto("pushBranch", loc)
     \/ IF aborted THEN Cancelled ELSE Goto("findPrTemplate", loc)

Pr_PushBranch ==
  /\ Awaiting("pr", "pushBranch")
  /\ \/ Caught
     \/ LET l == [loc EXCEPT !.pushed = TRUE]
        IN IF aborted THEN Return(CancelledResult(params.action), l)
           ELSE Goto("findPrTemplate", l)

Pr_FindPrTemplate ==
  /\ Awaiting("pr", "findPrTemplate")
  /\ \/ Caught
     \/ IF aborted THEN Cancelled
        ELSE \/ Goto("fillPrTemplate", loc)
             \/ Goto("generatePrSummary", loc)

\* the generators catch their own failures and return fallback text
Pr_GenerateBody ==
  /\ \/ Awaiting("pr", "fillPrTemplate")
     \/ Awaiting("pr", "generatePrSummary")
  /\ IF aborted THEN Cancelled ELSE Goto("createPr", loc)

Pr_CreatePr ==
  /\ Awaiting("pr", "createPr")
  /\ \/ Caught
     \/ Return(OkResult("pr"), [loc EXCEPT !.prCreated = TRUE])

\* ------------------------------------------------------------- case "feedback"
Feedback_GetCurrentBranch ==
  /\ Awaiting("feedback", "getCurrentBranch")
  /\ \/ Caught
     \/ \E b \in BranchNames :
          LET l == [loc EXCEPT !.currentBranch = b]
          IN IF aborted THEN Return(CancelledResult(params.action), l)
             ELSE Goto("getPrForBranch", l)

Feedback_GetPrForBranch ==
  /\ Awaiting("feedback", "getPrForBranch")
  /\ \/ Caught
     \/ Return(PreconditionError("feedback", "no PR found"),
               [loc EXCEPT !.pr = "none"])
     \/ LET l == [loc EXCEPT !.pr = "found"]
        IN IF aborted THEN Return(CancelledResult(params.action), l)
           ELSE Goto("getPrFeedback", l)

Feedback_GetPrFeedback ==
  /\ Awaiting("feedback", "getPrFeedback")
  /\ \/ Caught
     \/ Return(OkResult("feedback"), loc)

\* ------------------------------------------------------------ case "pr-update"
PrUpdate_GetCurrentBranch ==
  /\ Awaiting("pr-update", "getCurrentBranch")
  /\ \/ Caught
     \/ \E b \in BranchNames :
          LET l == [loc EXCEPT !.currentBranch = b]
          IN IF aborted THEN Return(CancelledResult(params.action), l)
             ELSE Goto("getPrForBranch", l)

PrUpdate_GetPrForBranch ==
  /\ Awaiting("pr-update", "getPrForBranch")
  /\ \/ Caught
     \/ Return(PreconditionError("pr-update", "no PR found"),
               [loc EXCEPT !.pr = "none"])
     \/ LET checkpointId == findLastPrCheckpointEntryId(entries)
            l == [loc EXCEPT !.pr = "found", !.checkpointId = checkpointId]
        IN IF aborted THEN Return(CancelledResult(params.action), [loc EXCEPT !.pr = "found"])
           ELSE IF checkpointId = 0
           THEN Return(PreconditionError("pr-update", "no PR checkpoint"), l)
           ELSE Goto("hasUncommittedChanges", l)

PrUpdate_HasUncommittedChanges ==
  /\ Awaiting("pr-update", "hasUncommittedChanges")
  /\ \/ Caught
     \/ Return(PreconditionError("pr-update", "uncommitted changes"),
               [loc EXCEPT !.dirty = "true"])
     \/ LET l == [loc EXCEPT !.dirty = "false"]
        IN IF aborted THEN Return(CancelledResult(params.action), l)
           ELSE Goto("getUnpushedCommits", l)

PrUpdate_GetUnpushedCommits ==
  /\ Awaiting("pr-update", "getUnpushedCommits")
  /\ \/ Caught
     \/ \E hasCommits \in BOOLEAN :
          LET scopedContext == gatherScopedSessionContext(entries)
              hasContext == scopedContext # <<>>
              l == [loc EXCEPT !.hasCommits = IF hasCommits THEN "true" ELSE "false",
                               !.hasContext = IF hasContext THEN "true" ELSE "false"]
          IN IF aborted THEN Return(CancelledResult(params.action), l)
             ELSE IF ~hasCommits /\ ~hasContext THEN Return(NothingToUpdateResult, l)
             ELSE IF hasCommits THEN Goto("pushBranch", l)
             ELSE Goto("generatePrUpdateSummary", l)

\* a failed push is caught locally
PrUpdate_PushBranch ==
  /\ Awaiting("pr-update", "pushBranch")
  /\ \/ Return(PushFailedResult, [loc EXCEPT !.failed = TRUE])
     \/ LET l == [loc EXCEPT !.pushed = TRUE]
        IN IF aborted THEN Return(CancelledResult(params.action), l)
           ELSE Goto("generatePrUpdateSummary", l)

PrUpdate_GenerateSummary ==
  /\ Awaiting("pr-update", "generatePrUpdateSummary")
  /\ IF aborted THEN Cancelled ELSE Goto("addPrComment", loc)

\* a failed comment is caught locally
PrUpdate_AddPrComment ==
  /\ Awaiting("pr-update", "addPrComment")
  /\ \/ Return(CommentFailedResult(loc.hasCommits = "true"), [loc EXCEPT !.failed = TRUE])
     \/ Return(PrUpdatedResult(loc.hasCommits # "true"), [loc EXCEPT !.commentPosted = TRUE])

\* ---------------------------------------------------------------- host events
\* the label the turn_end handler chooses for a gh_todo tool result
CheckpointLabel(details) ==
  IF details.action = Undefined \/ details.error # Undefined THEN "none"
  ELSE IF details.action = "pr" THEN PR_LABEL_CREATED
  ELSE IF details.action = "pr-update" /\ details.commentOnly # Undefined
  THEN PR_LABEL_UPDATED
  ELSE "none"

\* the tool result becomes a session entry and turn_end labels it; an
\* execute that threw leaves a result without details
TurnEnd ==
  /\ pc \in {"done", "thrown"}
  /\ entries' = Append(entries,
                       [type |-> "toolResult",
                        label |-> CheckpointLabel(IF pc = "thrown" THEN NoResult ELSE result)])
  /\ pc' = "labelled"
  /\ UNCHANGED <<params, aborted, calls, lateCall, loc, result, codecVars, utilVars>>

\* the agent goes on; the finished call's locals are gone
NextTurn ==
  /\ pc = "labelled"
  /\ pc' = "idle"
  /\ params' = NoParams
  /\ aborted' = FALSE
  /\ calls' = <<>>
  /\ lateCall' = FALSE
  /\ loc' = NoLocals
  /\ result' = NoResult
  /\ UNCHANGED <<entries, codecVars, utilVars>>

\* a user or assistant message is added to the session
Message ==
  /\ pc = "idle"
  /\ Len(entries) < MaxEntries
  /\ entries' = Append(entries, [type |-> "message", label |-> "none"])
  /\ UNCHANGED <<pc, params, aborted, calls, lateCall, loc, result, codecVars, utilVars>>

Init == ToolIdle /\ CodecIdle /\ UtilIdle

Next ==
  \/ Invoke
  \/ Abort
  \/ CheckGhCliReturns
  \/ SimpleCallReturns
  \/ Start_GetIssue
  \/ Start_GetCurrentBranch
  \/ Start_HasUncommittedChanges
  \/ Start_PullBranch
  \/ Start_BranchExists
  \/ Start_Checkout
  \/ Start_ListSessions
  \/ Pr_GetCurrentBranch
  \/ Pr_GetIssue
  \/ Pr_HasUncommittedChanges
  \/ Pr_HasUpstream
  \/ Pr_PushBranch
  \/ Pr_FindPrTemplate
  \/ Pr_GenerateBody
  \/ Pr_CreatePr
  \/ Feedback_GetCurrentBranch
  \/ Feedback_GetPrForBranch
  \/ Feedback_GetPrFeedback
  \/ PrUpdate_GetCurrentBranch
  \/ PrUpdate_GetPrForBranch
  \/ PrUpdate_HasUncommittedChanges
  \/ PrUpdate_GetUnpushedCommits
  \/ PrUpdate_PushBranch
  \/ PrUpdate_GenerateSummary
  \/ PrUpdate_AddPrComment
  \/ TurnEnd
  \/ NextTurn
  \/ Message

Spec == Init /\ [][Next]_vars

\* ------------------------------------------------------ gh_todo tool: claims
Started(call) == \E i \in 1..Len(calls) : calls[i] = call
LastLabel == entries[Len(entries)].label

\* C3: a checkpoint label is attached only when the pr action created a PR
\* or the pr-update action posted its comment; a failed or cancelled result
\* and a "nothing to update" result never produce a label.
C3_LabelOnlyOnSuccess ==
  pc = "labelled" =>
    /\ LastLabel = PR_LABEL_CREATED => (params.action = "pr" /\ loc.prCreated)
    /\ LastLabel = PR_LABEL_UPDATED => (params.action = "pr-update" /\ loc.commentPosted)

\* C4: in start, pr, feedback and pr-update no external call is started once
\* an awaited call has returned with the signal aborted.
C4_NoCallAfterAbort ==
  params.action \in {"start", "pr", "feedback", "pr-update"} => ~lateCall

PrBranchIsMain == loc.currentBranch \in {<<"main">>, <<"master">>}
PrNumbersConflict ==
  /\ extractIssueNumberFromBranch(loc.currentBranch) # NoNumber
  /\ extractIssueNumberFromSession(loc.sessionName) # NoNumber
  /\ extractIssueNumberFromBranch(loc.currentBranch)
       # extractIssueNumberFromSession(loc.sessionName)
PrNoIssueNumber == loc.issueNumber \in {NoNumber, 0}
\* execute ran its checks to a verdict: not cancelled, no call threw
PrVerdict ==
  /\ pc = "done"
  /\ params.action = "pr"
  /\ Head(result.text) # "Cancelled"
  /\ ~loc.failed

\* C5: the pr action pushes and calls createPr only when the branch is not
\* main/master, branch and session numbers do not conflict, an issue number
\* was determined, the issue is open and the tree is clean; a run that
\* reaches a verdict with one of these failing returns the matching error and
\* has called neither.
C5_PrPreconditions ==
  params.action = "pr" =>
    /\ (Started("createPr") \/ Started("pushBranch")) =>
         /\ ~PrBranchIsMain
         /\ ~PrNumbersConflict
         /\ ~PrNoIssueNumber
         /\ loc.issueState = "open"
         /\ loc.dirty = "false"
    /\ PrVerdict =>
         /\ PrBranchIsMain => result.error = "on main branch"
         /\ (~PrBranchIsMain /\ PrNumbersConflict) =>
              result.error = "branch/session mismatch"
         /\ (~PrBranchIsMain /\ ~PrNumbersConflict /\ PrNoIssueNumber) =>
              result.error = "no issue number"
         /\ loc.issueState = "closed" => result.error = "issue closed"
         /\ loc.dirty = "true" => result.error = "uncommitted changes"
         /\ result.error # Undefined => (~Started("createPr") /\ ~Started("pushBranch"))

C5_Witness ==
  /\ pc = "done"
  /\ params.action = "pr"
  /\ loc.pushed
  /\ loc.prCreated
  /\ extractIssueNumberFromBranch(loc.currentBranch) = loc.issueNumber

\* C6: execute never throws, and whenever an external call failed or threw
\* the returned text is "Error: {message}" and details.error is set.
C6_NeverThrows ==
  /\ pc # "thrown"
  /\ (pc = "done" /\ loc.failed) =>
       (Head(result.text) = "Error:" /\ result.error # Undefined)

\* the result text reports a failure
ReportsFailure(r) == Head(r.text) \in {"Error:", "Error", "Unknown", "Failed", "Pushed"}

\* C7 (as stated): every result that reports a failure has details.error and
\* the error flag set.
C7_Original ==
  (pc = "done" /\ ReportsFailure(result)) =>
    (result.error # Undefined /\ result.isError)

\* C7 (amended): every result that reports a failure has details.error set,
\* and the error flag too, except the pr-update result whose comment failed
\* after its push succeeded: that one has details.error but no error flag.
C7_FailureIsFlagged ==
  (pc = "done" /\ ReportsFailure(result)) =>
    /\ result.error # Undefined
    /\ result.isError <=>
         ~(params.action = "pr-update" /\ loc.pushed /\ Started("addPrComment"))

C7_Witness ==
  /\ pc = "done"
  /\ params.action = "pr-update"
  /\ loc.pushed
  /\ Started("addPrComment")
  /\ loc.failed
  /\ result.error # Undefined
  /\ ~result.isError

HasCheckpoint(es) ==
  \E i \in 1..Len(es) : es[i].label \in {PR_LABEL_CREATED, PR_LABEL_UPDATED}
\* a message entry that no checkpoint follows
ActivitySinceCheckpoint(es) ==
  \E i \in 1..Len(es) :
    /\ es[i].type = "message"
    /\ \A j \in i..Len(es) : es[j].label \notin {PR_LABEL_CREATED, PR_LABEL_UPDATED}
Before(c1, c2) ==
  \E i \in 1..Len(calls) : \E j \in (i+1)..Len(calls) : calls[i] = c1 /\ calls[j] = c2

\* C8: pr-update pushes and comments only when a PR was found, a checkpoint
\* label exists in the session branch and the tree is clean; with unpushed
\* commits the comment comes only after a successful push; with neither
\* commits nor activity since the checkpoint it neither pushes nor comments.
C8_PrUpdateGuards ==
  (params.action = "pr-update" /\ pc # "labelled") =>
    /\ (Started("pushBranch") \/ Started("addPrComment")) =>
         /\ loc.pr = "found"
         /\ HasCheckpoint(entries)
         /\ loc.dirty = "false"
    /\ (Started("addPrComment") /\ loc.hasCommits = "true") =>
         (loc.pushed /\ Before("pushBranch", "addPrComment"))
    /\ (Started("pushBranch") /\ ~loc.pushed /\ pc = "done") => ~Started("addPrComment")
    /\ (loc.hasCommits = "false" /\ ~ActivitySinceCheckpoint(entries)) =>
         (~Started("pushBranch") /\ ~Started("addPrComment"))

C8_Witness ==
  /\ pc = "done"
  /\ params.action = "pr-update"
  /\ loc.pushed
  /\ loc.commentPosted
  /\ ActivitySinceCheckpoint(entries)

\* ------------------------------------------------- session and branch names
DigitChar(d) ==
  CASE d = 0 -> "0" [] d = 1 -> "1" [] d = 2 -> "2" [] d = 3 -> "3" [] d = 4 -> "4"
    [] d = 5 -> "5" [] d = 6 -> "6" [] d = 7 -> "7" [] d = 8 -> "8" [] OTHER -> "9"

\* `${number}` for a non-negative integer: its decimal digits
RECURSIVE ToDigits(_)
ToDigits(n) ==
  IF n < 10 THEN <<DigitChar(n)>>
  ELSE ToDigits(n \div 10) \o <<DigitChar(n % 10)>>

\* String.prototype.startsWith
StartsWith(s, prefix) ==
  /\ Len(prefix) <= Len(s)
  /\ SubSeq(s, 1, Len(prefix)) = prefix

getIssueSessionName(issue) == <<"#">> \o ToDigits(issue.number) \o <<":", " ">> \o issue.title

getIssueSessionPrefix(issueNumber) == <<"#">> \o ToDigits(issueNumber) \o <<":", " ">>

\* sessionMatchesIssue with a prefix that lacks the ": " separator
sessionMatchesIssue_noSeparator(sessionName, issueNumber) ==
  IF sessionName = <<>> THEN FALSE
  ELSE StartsWith(sessionName, <<"#">> \o ToDigits(issueNumber))

sessionMatchesIssue(sessionName, issueNumber) ==
  IF sessionName = <<>> THEN FALSE
  ELSE StartsWith(sessionName, getIssueSessionPrefix(issueNumber))

\* characters of a title: a lower-case letter, an upper-case letter, a digit,
\* and two characters outside [a-z0-9]
TitleAlphabet == {"a", "B", "1", " ", "-"}
\* String.prototype.toLowerCase, character by character
Lower(c) == IF c = "B" THEN "b" ELSE c
IsAlnum(c) == c \in Digits \cup {"a", "b"}

\* replace(/[^a-z0-9]+/g, "-"): every run of other characters becomes one "-"
RECURSIVE Slugify(_)
Slugify(t) ==
  IF t = <<>> THEN <<>>
  ELSE IF IsAlnum(Head(t)) THEN <<Head(t)>> \o Slugify(Tail(t))
  ELSE IF Len(t) > 1 /\ ~IsAlnum(t[2]) THEN Slugify(Tail(t))
  ELSE <<"-">> \o Slugify(Tail(t))

\* replace(/^-+/, "")
RECURSIVE StripLeadingDashes(_)
StripLeadingDashes(t) ==
  IF t # <<>> /\ Head(t) = "-" THEN StripLeadingDashes(Tail(t)) ELSE t

\* replace(/-+$/, "")
RECURSIVE StripTrailingDashes(_)
StripTrailingDashes(t) ==
  IF t # <<>> /\ t[Len(t)] = "-"
  THEN StripTrailingDashes(SubSeq(t, 1, Len(t) - 1)) ELSE t

SlugLimit == 50

\* "todo/" is one token, as in extractIssueNumberFromBranch
getIssueBranchName(issue) ==
  LET lowered == [i \in 1..Len(issue.title) |-> Lower(issue.title[i])]
      trimmed == StripTrailingDashes(StripLeadingDashes(Slugify(lowered)))
      cut     == SubSeq(trimmed, 1, IF Len(trimmed) < SlugLimit THEN Len(trimmed)
                                    ELSE SlugLimit)
      slug    == StripTrailingDashes(cut)
  IN <<"todo/">> \o ToDigits(issue.number) \o <<"-">> \o slug

Issues == [number : 0..MaxIssueNumber, title : SeqsUpTo(TitleAlphabet, MaxTitleLen)]

\* branch names that were not made by getIssueBranchName
OtherBranchNames ==
  BranchNames \cup
  {<<"todo/", "4", "2", "-", "a", "d", "d">>, <<"feature/", "4", "2", "-", "x">>,
   <<"todo/", "-", "x">>, <<"todo/", "x", "1", "-">>, <<"x", "todo/", "1", "-">>,
   <<"todo/", "1", "2">>, <<"todo/">>, <<>>}

\* every variable outside the naming group stays as it is
NamingFrame == UNCHANGED <<codecVars, toolVars, sessVars, gwVars, uiVars, moreVars>>

InitNaming ==
  /\ namedIssue \in Issues
  /\ session = <<>>
  /\ queried = NoNumber
  /\ matched = FALSE
  /\ branch = <<>>
  /\ branchFrom = "none"
  /\ parsed = NoNumber
  /\ nameOp = "none"
  /\ CodecIdle /\ ToolIdle /\ SessIdle /\ GwIdle /\ UiIdle /\ MoreIdle

\* the session started for the issue gets its name
NameSession ==
  /\ nameOp = "none"
  /\ session' = getIssueSessionName(namedIssue)
  /\ nameOp' = "getIssueSessionName"
  /\ UNCHANGED <<namedIssue, queried, matched, branch, branchFrom, parsed>>
  /\ NamingFrame

\* a caller asks whether the session belongs to issue m
MatchSession(m) ==
  /\ nameOp = "getIssueSessionName"
  /\ queried' = m
  /\ matched' = sessionMatchesIssue(session, m)
  /\ nameOp' = "sessionMatchesIssue"
  /\ UNCHANGED <<namedIssue, session, branch, branchFrom, parsed>>
  /\ NamingFrame

\* the branch for the issue is named
NameBranch ==
  /\ nameOp = "none"
  /\ branch' = getIssueBranchName(namedIssue)
  /\ branchFrom' = "issue"
  /\ nameOp' = "getIssueBranchName"
  /\ UNCHANGED <<namedIssue, session, queried, matched, parsed>>
  /\ NamingFrame

\* the user is on some other branch
OtherBranch(b) ==
  /\ nameOp = "none"
  /\ branch' = b
  /\ branchFrom' = "other"
  /\ nameOp' = "getCurrentBranch"
  /\ UNCHANGED <<namedIssue, session, queried, matched, parsed>>
  /\ NamingFrame

ParseBranch ==
  /\ nameOp \in {"getIssueBranchName", "getCurrentBranch"}
  /\ parsed' = extractIssueNumberFromBranch(branch)
  /\ nameOp' = "extractIssueNumberFromBranch"
  /\ UNCHANGED <<namedIssue, session, queried, matched, branch, branchFrom>>
  /\ NamingFrame

NextNaming ==
  \/ NameSession
  \/ \E m \in 0..MaxIssueNumber : MatchSession(m)
  \/ NameBranch
  \/ \E b \in OtherBranchNames : OtherBranch(b)
  \/ ParseBranch

SpecNaming == InitNaming /\ [][NextNaming]_vars

\* C12: a session named for an issue matches issue number m exactly when m
\* is that issue's number, whatever the title.
C12_SessionMatchesOwnIssue ==
  nameOp = "sessionMatchesIssue" => (matched <=> queried = namedIssue.number)

C12_Witness ==
  /\ nameOp = "sessionMatchesIssue"
  /\ namedIssue.number = 12
  /\ queried = 1
  /\ namedIssue.title # <<>>
  /\ ~matched

\* the name is "todo/", one or more digits, "-", anything
TodoShaped(b) ==
  \E k \in 2..(Len(b) - 1) :
    /\ b[1] = "todo/"
    /\ \A j \in 2..k : b[j] \in Digits
    /\ b[k + 1] = "-"

\* C13: the branch name made for an issue parses back to the issue's number,
\* also when the title has no alphanumeric character, and a name that is not
\* "todo/" + digits + "-" parses to null.
C13_BranchRoundTrip ==
  nameOp = "extractIssueNumberFromBranch" =>
    /\ branchFrom = "issue" => parsed = namedIssue.number
    /\ ~TodoShaped(branch) => parsed = NoNumber

C13_Witness ==
  /\ nameOp = "extractIssueNumberFromBranch"
  /\ branchFrom = "issue"
  /\ namedIssue.title # <<>>
  /\ namedIssue.number > 9
  /\ branch = <<"todo/">> \o ToDigits(namedIssue.number) \o <<"-">>
  /\ parsed = namedIssue.number

\* ------------------------------------------------------ session checkpoints
\* a label other than the two checkpoint labels may sit on any entry
EntryKinds == [type : {"message", "toolResult"},
               label : {"none", PR_LABEL_CREATED, PR_LABEL_UPDATED, "bookmark"}]

SessionFrame == UNCHANGED <<codecVars, toolVars, nameVars, gwVars, uiVars, moreVars>>

\* ctx.sessionManager.getBranch() of a session with some history
InitSession ==
  /\ entries \in SeqsUpTo(EntryKinds, MaxEntries)
  /\ pc = "idle"
  /\ params = NoParams
  /\ aborted = FALSE
  /\ calls = <<>>
  /\ lateCall = FALSE
  /\ loc = NoLocals
  /\ result = NoResult
  /\ SessIdle
  /\ CodecIdle /\ NameIdle /\ GwIdle /\ UiIdle /\ MoreIdle

FindCheckpoint ==
  /\ sessOp = "none"
  /\ checkpoint' = findLastPrCheckpointEntryId(entries)
  /\ sessOp' = "findLastPrCheckpointEntryId"
  /\ UNCHANGED <<afterId, after>>
  /\ SessionFrame

\* id 0 is null; an id beyond the branch belongs to no entry of it
EntriesAfter(id) ==
  /\ sessOp \in {"none", "findLastPrCheckpointEntryId"}
  /\ sessOp = "findLastPrCheckpointEntryId" => id = checkpoint
  /\ afterId' = id
  /\ after' = getEntriesAfter(entries, id)
  /\ sessOp' = "getEntriesAfter"
  /\ UNCHANGED checkpoint
  /\ SessionFrame

NextSession ==
  \/ FindCheckpoint
  \/ \E id \in 0..(MaxEntries + 1) : EntriesAfter(id)

SpecSession == InitSession /\ [][NextSession]_vars

IsCheckpoint(e) == e.label \in {PR_LABEL_CREATED, PR_LABEL_UPDATED}

\* C14: findLastPrCheckpointEntryId returns the most recent entry labelled
\* pr-created or pr-update, and null when no entry carries such a label.
C14_MostRecentCheckpoint ==
  sessOp = "findLastPrCheckpointEntryId" =>
    IF \E i \in 1..Len(entries) : IsCheckpoint(entries[i])
    THEN /\ checkpoint \in 1..Len(entries)
         /\ IsCheckpoint(entries[checkpoint])
         /\ \A j \in (checkpoint + 1)..Len(entries) : ~IsCheckpoint(entries[j])
    ELSE checkpoint = 0

C14_Witness ==
  /\ sessOp = "findLastPrCheckpointEntryId"
  /\ Len(entries) = 3
  /\ entries[1].label = PR_LABEL_CREATED
  /\ entries[2].label = PR_LABEL_UPDATED
  /\ entries[3].label = "bookmark"
  /\ checkpoint = 2

\* C15: getEntriesAfter(id) returns the entries strictly after the entry with
\* that id, in order; for null or an id of no entry it returns all entries.
C15_EntriesStrictlyAfter ==
  sessOp = "getEntriesAfter" =>
    IF afterId \in 1..Len(entries)
    THEN /\ Len(after) = Len(entries) - afterId
         /\ \A i \in 1..Len(after) : after[i] = entries[afterId + i]
    ELSE after = entries

C15_Witness ==
  /\ sessOp = "getEntriesAfter"
  /\ Len(entries) = 3
  /\ afterId = 1
  /\ entries[1] # entries[2]
  /\ entries[2] # entries[3]
  /\ after = <<entries[2], entries[3]>>

\* ------------------------------------------------------------ issue gateway
GwFunctions == {"createIssue", "updateIssueNotes", "closeIssue", "reopenIssue"}

\* the gh subcommand that changes the issue
MutatingCall(fn) ==
  CASE fn = "createIssue" -> "issue create"
    [] fn = "updateIssueNotes" -> "issue edit"
    [] fn = "closeIssue" -> "issue close"
    [] OTHER -> "issue reopen"

\* the issue's state on GitHub after the subcommand succeeded
StateAfter(fn, state) ==
  CASE fn = "createIssue" -> "open"
    [] fn = "closeIssue" -> "closed"
    [] fn = "reopenIssue" -> "open"
    [] OTHER -> state

GatewayFrame == UNCHANGED <<codecVars, toolVars, nameVars, sessVars, uiVars, moreVars>>

InitGateway == GwIdle /\ CodecIdle /\ ToolIdle /\ NameIdle /\ SessIdle /\ UiIdle /\ MoreIdle

\* a caller invokes one of the four functions; the first CLI call is issued
GwCall(fn) ==
  /\ gwPc \in {"idle", "returned", "thrown"}
  /\ remote.rev < MaxRev
  /\ gwFn' = fn
  /\ gwPc' = (CASE fn = "createIssue" -> "ensureLabel"
                [] fn = "updateIssueNotes" -> "fetchCurrent"
                [] OTHER -> "mutate")
  /\ gwCalls' = (CASE fn = "createIssue" -> <<"label create">>
                   [] fn = "updateIssueNotes" -> <<"issue view">>
                   [] OTHER -> <<MutatingCall(fn)>>)
  /\ current' = NoSnapshot
  /\ mutation' = "pending"
  /\ mutationRev' = NoNumber
  /\ gwResult' = NoSnapshot
  /\ UNCHANGED remote
  /\ GatewayFrame

\* createIssue: ensureLabel's exit code is ignored; a rejected exec throws
Gw_EnsureLabelReturns ==
  /\ gwPc = "ensureLabel"
  /\ \/ /\ gwPc' = "mutate"
        /\ gwCalls' = Append(gwCalls, MutatingCall(gwFn))
     \/ /\ gwPc' = "thrown"
        /\ UNCHANGED gwCalls
  /\ UNCHANGED <<gwFn, remote, current, mutation, mutationRev, gwResult>>
  /\ GatewayFrame

\* updateIssueNotes: getIssue before the edit
Gw_FetchCurrentReturns ==
  /\ gwPc = "fetchCurrent"
  /\ \/ /\ current' = remote
        /\ gwPc' = "mutate"
        /\ gwCalls' = Append(gwCalls, MutatingCall(gwFn))
     \/ /\ gwPc' = "thrown"
        /\ UNCHANGED <<current, gwCalls>>
  /\ UNCHANGED <<gwFn, remote, mutation, mutationRev, gwResult>>
  /\ GatewayFrame

\* the mutating call returning the pre-fetched or a locally patched issue
Gw_MutateReturns_noRefetch ==
  /\ gwPc = "mutate"
  /\ \/ /\ remote' = [state |-> StateAfter(gwFn, remote.state), rev |-> remote.rev + 1]
        /\ mutation' = "ok"
        /\ mutationRev' = remote.rev + 1
        /\ gwPc' = "returned"
        /\ gwResult' = [state |-> StateAfter(gwFn, remote.state), rev |-> remote.rev]
        /\ UNCHANGED gwCalls
     \/ /\ mutation' = "failed"
        /\ gwPc' = "thrown"
        /\ UNCHANGED <<remote, mutationRev, gwCalls, gwResult>>
  /\ UNCHANGED <<gwFn, current>>
  /\ GatewayFrame

\* the mutating call: exit code 0 leads to the re-fetch (createIssue may
\* fail to find the issue number in the output), any other code throws
Gw_MutateReturns ==
  /\ gwPc = "mutate"
  /\ \/ /\ remote' = [state |-> StateAfter(gwFn, remote.state), rev |-> remote.rev + 1]
        /\ mutation' = "ok"
        /\ mutationRev' = remote.rev + 1
        /\ \/ /\ gwPc' = "refetch"
              /\ gwCalls' = Append(gwCalls, "issue view")
           \/ /\ gwFn = "createIssue"
              /\ gwPc' = "thrown"
              /\ UNCHANGED gwCalls
     \/ /\ mutation' = "failed"
        /\ gwPc' = "thrown"
        /\ UNCHANGED <<remote, mutationRev, gwCalls>>
  /\ UNCHANGED <<gwFn, current, gwResult>>
  /\ GatewayFrame

\* getIssue after the mutation: its result is what the function returns
Gw_RefetchReturns ==
  /\ gwPc = "refetch"
  /\ \/ /\ gwResult' = remote
        /\ gwPc' = "returned"
     \/ /\ gwPc' = "thrown"
        /\ UNCHANGED gwResult
  /\ UNCHANGED <<gwFn, gwCalls, remote, current, mutation, mutationRev>>
  /\ GatewayFrame

\* somebody else edits, closes or reopens the issue on GitHub
RemoteEdit ==
  /\ remote.rev < MaxRev
  /\ \E st \in {"open", "closed"} : remote' = [state |-> st, rev |-> remote.rev + 1]
  /\ UNCHANGED <<gwFn, gwPc, gwCalls, current, mutation, mutationRev, gwResult>>
  /\ GatewayFrame

NextGateway ==
  \/ \E fn \in GwFunctions : GwCall(fn)
  \/ Gw_EnsureLabelReturns
  \/ Gw_FetchCurrentReturns
  \/ Gw_MutateReturns
  \/ Gw_RefetchReturns
  \/ RemoteEdit

SpecGateway == InitGateway /\ [][NextGateway]_vars

\* the last CLI call is a getIssue issued after the mutating call
RefetchedAfterMutation ==
  /\ gwCalls[Len(gwCalls)] = "issue view"
  /\ \E i \in 1..(Len(gwCalls) - 1) : gwCalls[i] = MutatingCall(gwFn)

\* C16: createIssue, updateIssueNotes, closeIssue and reopenIssue return a
\* snapshot fetched by a getIssue issued after their mutating call succeeded;
\* when the mutating call fails they throw, re-fetch nothing and return no
\* snapshot.
C16_SnapshotAfterMutation ==
  /\ gwPc = "returned" =>
       /\ mutation = "ok"
       /\ RefetchedAfterMutation
       /\ gwResult # NoSnapshot
       /\ gwResult.rev >= mutationRev
  /\ mutation = "failed" =>
       /\ gwPc = "thrown"
       /\ gwResult = NoSnapshot
       /\ gwCalls[Len(gwCalls)] = MutatingCall(gwFn)

C16_Witness ==
  /\ gwPc = "returned"
  /\ gwFn = "updateIssueNotes"
  /\ current # NoSnapshot
  /\ gwResult.rev > current.rev
  /\ gwResult = remote

\* ------------------------------------------------------------ todo list UI
\* keys the terminal may deliver; "newline" inserts a line break in the
\* editor, "z" is bound to nothing
Keys == {"escape", "return", "q", "up", "down", "a", "o", "s", "x", "g", "c",
         "r", "newline", "z"}
\* the keys delivered while the editor has the input
AddKeys == {"escape", "return", "up", "x", "newline"}
\* what the editor inserts for a key, <<>> for a key that inserts nothing
Typed(key) ==
  CASE key = "x" -> <<"x">> [] key = "newline" -> NL [] OTHER -> <<>>

\* issue lists the owner may hand to the component: each issue is given by
\* its state, its number is its position
IssueLists == SeqsUpTo({"open", "closed"}, MaxIssues)

\* selectableIndices over allDisplayItems: open issues first, then closed
DisplayOrder(iss) ==
  LET idx == [i \in 1..Len(iss) |-> i]
  IN SelectSeq(idx, LAMBDA i : iss[i] = "open")
     \o SelectSeq(idx, LAMBDA i : iss[i] = "closed")

\* selectedIssue: the issue's number, 0 for undefined
selectedIssue(c) ==
  IF c.selectedIndex < 0 \/ c.selectedIndex >= Len(DisplayOrder(c.issues)) THEN 0
  ELSE DisplayOrder(c.issues)[c.selectedIndex + 1]

\* one call this.onAction(action, issue, title, body), with the loading
\* state of the component at the moment of the call
OnAction(action, issue, title, text, c) ==
  [action |-> action, issue |-> issue, title |-> title, body |-> text,
   loading |-> c.isLoading]

Handled(c, close, actions) == [comp |-> c, close |-> close, actions |-> actions]

\* handleEditorSubmit dispatching before it sets the loading state
handleEditorSubmit_dispatchFirst(c, value) ==
  IF c.addStep = "title"
  THEN IF Trim(value) = <<>>
       THEN Handled([c EXCEPT !.newTitle = <<>>,
                              !.statusMessage = "Title cannot be empty"],
                    FALSE, <<>>)
       ELSE Handled([c EXCEPT !.newTitle = Trim(value), !.addStep = "body",
                              !.editorText = <<>>],
                    FALSE, <<>>)
  ELSE LET d == [c EXCEPT !.viewMode = "list", !.addStep = "title",
                          !.editorText = <<>>, !.newTitle = <<>>,
                          !.newBody = <<>>, !.isLoading = TRUE]
       IN Handled(d, FALSE, <<OnAction("add", 0, c.newTitle, Trim(value), c)>>)

handleEditorSubmit(c, value) ==
  IF c.addStep = "title"
  THEN IF Trim(value) = <<>>
       THEN Handled([c EXCEPT !.newTitle = <<>>,
                              !.statusMessage = "Title cannot be empty"],
                    FALSE, <<>>)
       ELSE Handled([c EXCEPT !.newTitle = Trim(value), !.addStep = "body",
                              !.editorText = <<>>],
                    FALSE, <<>>)
  ELSE LET d == [c EXCEPT !.viewMode = "list", !.addStep = "title",
                          !.editorText = <<>>, !.newTitle = <<>>,
                          !.newBody = <<>>, !.isLoading = TRUE]
       IN Handled(d, FALSE, <<OnAction("add", 0, c.newTitle, Trim(value), d)>>)

\* Editor.handleInput: Enter submits the text, other keys edit it
editorHandleInput(c, key) ==
  IF key = "return" THEN handleEditorSubmit(c, c.editorText)
  ELSE Handled([c EXCEPT !.editorText = c.editorText \o Typed(key)], FALSE, <<>>)

\* add mode in which Escape leaves the draft in place
handleAddInput_keepDraft(c, key) ==
  IF key = "escape"
  THEN Handled([c EXCEPT !.viewMode = "list"], FALSE, <<>>)
  ELSE editorHandleInput(c, key)

handleAddInput(c, key) ==
  IF key = "escape"
  THEN Handled([c EXCEPT !.viewMode = "list", !.addStep = "title",
                         !.editorText = <<>>, !.newTitle = <<>>,
                         !.newBody = <<>>],
               FALSE, <<>>)
  ELSE editorHandleInput(c, key)

\* detail mode left by any key
handleDetailInput_anyKey(c, key) == Handled([c EXCEPT !.viewMode = "list"], FALSE, <<>>)

handleDetailInput(c, key) ==
  IF key = "escape" \/ key = "return"
  THEN Handled([c EXCEPT !.viewMode = "list"], FALSE, <<>>)
  ELSE Handled(c, FALSE, <<>>)

\* list mode in which "s" starts whatever issue is selected
handleListInput_startAny(c, key) ==
  LET sel   == selectedIssue(c)
      state == IF sel = 0 THEN "none" ELSE c.issues[sel]
      same  == Handled(c, FALSE, <<>>)
      send(action) == Handled(c, FALSE, <<OnAction(action, sel, <<>>, <<>>, c)>>)
  IN CASE key \in {"escape", "q"} -> Handled(c, TRUE, <<>>)
       [] key = "up" ->
            IF c.selectedIndex > 0
            THEN Handled([c EXCEPT !.selectedIndex = c.selectedIndex - 1], FALSE, <<>>)
            ELSE same
       [] key = "down" ->
            IF c.selectedIndex < Len(DisplayOrder(c.issues)) - 1
            THEN Handled([c EXCEPT !.selectedIndex = c.selectedIndex + 1], FALSE, <<>>)
            ELSE same
       [] key = "return" ->
            IF sel # 0 THEN Handled([c EXCEPT !.viewMode = "detail"], FALSE, <<>>)
            ELSE same
       [] key = "a" ->
            Handled([c EXCEPT !.viewMode = "add", !.addStep = "title",
                              !.editorText = <<>>, !.statusMessage = "none"],
                    FALSE, <<>>)
       [] key = "o" -> IF sel # 0 THEN send("open") ELSE same
       [] key = "s" -> IF sel # 0 THEN send("start") ELSE same
       [] key = "x" -> IF state = "open" THEN send("close") ELSE same
       [] key = "g" -> IF state = "closed" THEN send("reopen") ELSE same
       [] key = "c" -> IF state = "open" THEN send("comment") ELSE same
       [] key = "r" ->
            Handled(c, FALSE, <<OnAction("refresh", 0, <<>>, <<>>, c)>>)
       [] OTHER -> same

handleListInput(c, key) ==
  LET sel   == selectedIssue(c)
      state == IF sel = 0 THEN "none" ELSE c.issues[sel]
      same  == Handled(c, FALSE, <<>>)
      send(action) == Handled(c, FALSE, <<OnAction(action, sel, <<>>, <<>>, c)>>)
  IN CASE key \in {"escape", "q"} -> Handled(c, TRUE, <<>>)
       [] key = "up" ->
            IF c.selectedIndex > 0
            THEN Handled([c EXCEPT !.selectedIndex = c.selectedIndex - 1], FALSE, <<>>)
            ELSE same
       [] key = "down" ->
            IF c.selectedIndex < Len(DisplayOrder(c.issues)) - 1
            THEN Handled([c EXCEPT !.selectedIndex = c.selectedIndex + 1], FALSE, <<>>)
            ELSE same
       [] key = "return" ->
            IF sel # 0 THEN Handled([c EXCEPT !.viewMode = "detail"], FALSE, <<>>)
            ELSE same
       [] key = "a" ->
            Handled([c EXCEPT !.viewMode = "add", !.addStep = "title",
                              !.editorText = <<>>, !.statusMessage = "none"],
                    FALSE, <<>>)
       [] key = "o" -> IF sel # 0 THEN send("open") ELSE same
       [] key = "s" -> IF state = "open" THEN send("start") ELSE same
       [] key = "x" -> IF state = "open" THEN send("close") ELSE same
       [] key = "g" -> IF state = "closed" THEN send("reopen") ELSE same
       [] key = "c" -> IF state = "open" THEN send("comment") ELSE same
       [] key = "r" ->
            Handled(c, FALSE, <<OnAction("refresh", 0, <<>>, <<>>, c)>>)
       [] OTHER -> same

\* handleInput that reads keys while an action is in progress
handleInput_whileLoading(c, key) ==
  IF c.viewMode = "add" THEN handleAddInput(c, key)
  ELSE IF c.viewMode = "detail" THEN handleDetailInput(c, key)
  ELSE handleListInput(c, key)

handleInput(c, key) ==
  IF c.isLoading THEN Handled(c, FALSE, <<>>)
  ELSE IF c.viewMode = "add" THEN handleAddInput(c, key)
  ELSE IF c.viewMode = "detail" THEN handleDetailInput(c, key)
  ELSE handleListInput(c, key)

\* terminal widths the host draws at
Widths == {80, 120}

\* the lines render draws: a function of the component's fields and the width
Lines(c, width) == <<[width |-> width, drawn |-> c]>>

\* handleInput that redraws after up and down only from the owner's side
Invalidated_notOnNavigation(c, key) ==
  IF c.isLoading THEN FALSE
  ELSE IF c.viewMode = "add" THEN TRUE
  ELSE IF c.viewMode = "detail" THEN key \in {"escape", "return"}
  ELSE CASE key = "return" -> selectedIssue(c) # 0
         [] key = "a" -> TRUE
         [] OTHER -> FALSE

\* whether handleInput calls this.invalidate() for the key
Invalidated(c, key) ==
  IF c.isLoading THEN FALSE
  ELSE IF c.viewMode = "add" THEN TRUE
  ELSE IF c.viewMode = "detail" THEN key \in {"escape", "return"}
  ELSE CASE key = "up" -> c.selectedIndex > 0
         [] key = "down" -> c.selectedIndex < Len(DisplayOrder(c.issues)) - 1
         [] key = "return" -> selectedIssue(c) # 0
         [] key = "a" -> TRUE
         [] OTHER -> FALSE

\* updateIssues that leaves the selection where it was
ClampSelection_none(index, iss) == index

\* updateIssues: the selection is clamped to the new list
ClampSelection(index, iss) ==
  IF index >= Len(iss) THEN (IF Len(iss) = 0 THEN 0 ELSE Len(iss) - 1) ELSE index

\* the status set after a successful action, by its type: "Refreshed" and
\* "Created ..." are of type success, the others of type info
StatusAfter(action) ==
  IF action \in {"refresh", "add"} THEN "success" ELSE "info"

UiFrame == UNCHANGED <<codecVars, toolVars, nameVars, sessVars, gwVars, moreVars>>

InitUi == UiIdle /\ CodecIdle /\ ToolIdle /\ NameIdle /\ SessIdle /\ GwIdle /\ MoreIdle

\* the /todo command loads the issues and shows a new component
OpenTodo(list) ==
  /\ ~open
  /\ pending = NoAction
  /\ issues' = list
  /\ selectedIndex' = 0
  /\ viewMode' = "list"
  /\ statusMessage' = "none"
  /\ isLoading' = FALSE
  /\ editorText' = <<>>
  /\ addStep' = "title"
  /\ newTitle' = <<>>
  /\ newBody' = <<>>
  /\ open' = TRUE
  /\ closeCalls' = 0
  /\ lastKey' = "none"
  /\ before' = Component'
  /\ dispatched' = <<>>
  /\ typedTitle' = <<>>
  /\ cachedWidth' = 0
  /\ cachedLines' = <<>>
  /\ UNCHANGED pending
  /\ UiFrame

\* the host hands a key to the dialog that is on screen; the owner's
\* onAction runs up to its first await: it sets the loading state with
\* setLoading(true), which invalidates, and for "start" and "comment" it ends
\* the dialog with done(result)
HandleInput(key) ==
  /\ open
  /\ viewMode = "add" => key \in AddKeys
  /\ Len(editorText \o Typed(key)) <= MaxTextLen
  /\ LET r    == handleInput(Component, key)
         sent == r.actions # <<>>
         ends == sent /\ r.actions[1].action \in {"start", "comment"}
     IN /\ issues' = r.comp.issues
        /\ selectedIndex' = r.comp.selectedIndex
        /\ viewMode' = r.comp.viewMode
        /\ statusMessage' = r.comp.statusMessage
        /\ isLoading' = (r.comp.isLoading \/ sent)
        /\ editorText' = r.comp.editorText
        /\ addStep' = r.comp.addStep
        /\ newTitle' = r.comp.newTitle
        /\ newBody' = r.comp.newBody
        /\ closeCalls' = closeCalls + (IF r.close THEN 1 ELSE 0)
        /\ open' = (~r.close /\ ~ends)
        /\ pending' = (IF sent /\ ~ends THEN r.actions[1] ELSE pending)
        /\ dispatched' = r.actions
        /\ typedTitle' = (IF isLoading \/ viewMode # "add" THEN <<>>
                          ELSE IF addStep = "title" /\ key = "return"
                          THEN editorText
                          ELSE typedTitle)
        /\ IF Invalidated(Component, key) \/ sent
           THEN cachedWidth' = 0 /\ cachedLines' = <<>>
           ELSE UNCHANGED <<cachedWidth, cachedLines>>
  /\ lastKey' = key
  /\ before' = Component
  /\ UiFrame

\* onAction without setLoading(false) after its catch block
ActionCompletes_stuckOnError ==
  /\ pending # NoAction
  /\ \/ /\ pending.action # "open"
        /\ \E list \in IssueLists :
             /\ issues' = list
             /\ selectedIndex' = ClampSelection(selectedIndex, list)
        /\ statusMessage' = StatusAfter(pending.action)
     \/ /\ pending.action = "open"
        /\ statusMessage' = StatusAfter(pending.action)
        /\ UNCHANGED <<issues, selectedIndex>>
     \/ /\ statusMessage' = "Error"
        /\ UNCHANGED <<issues, selectedIndex>>
  /\ isLoading' = (statusMessage' = "Error")
  /\ pending' = NoAction
  /\ lastKey' = "none"
  /\ dispatched' = <<>>
  /\ typedTitle' = <<>>
  /\ cachedWidth' = 0
  /\ cachedLines' = <<>>
  /\ UNCHANGED <<viewMode, editorText, addStep, newTitle, newBody, open,
                 closeCalls>>
  /\ before' = [Component' EXCEPT !.selectedIndex = selectedIndex]
  /\ UiFrame

\* the awaited part of onAction finishes: the issue list is replaced and a
\* status set, or the error is shown; then setLoading(false).  `before` keeps
\* the selection that updateIssues found.
ActionCompletes ==
  /\ pending # NoAction
  /\ \/ /\ pending.action # "open"
        /\ \E list \in IssueLists :
             /\ issues' = list
             /\ selectedIndex' = ClampSelection(selectedIndex, list)
        /\ statusMessage' = StatusAfter(pending.action)
     \/ /\ pending.action = "open"
        /\ statusMessage' = StatusAfter(pending.action)
        /\ UNCHANGED <<issues, selectedIndex>>
     \/ /\ statusMessage' = "Error"
        /\ UNCHANGED <<issues, selectedIndex>>
  /\ isLoading' = FALSE
  /\ pending' = NoAction
  /\ lastKey' = "none"
  /\ dispatched' = <<>>
  /\ typedTitle' = <<>>
  /\ cachedWidth' = 0
  /\ cachedLines' = <<>>
  /\ UNCHANGED <<viewMode, editorText, addStep, newTitle, newBody, open,
                 closeCalls>>
  /\ before' = [Component' EXCEPT !.selectedIndex = selectedIndex]
  /\ UiFrame

\* the host draws the dialog: render returns the cached lines when they were
\* drawn for the same width, and otherwise draws and caches new lines
Render(width) ==
  /\ open
  /\ ~(cachedLines # <<>> /\ cachedWidth = width)
  /\ cachedWidth' = width
  /\ cachedLines' = Lines(Component, width)
  /\ UNCHANGED <<issues, selectedIndex, viewMode, statusMessage, isLoading,
                 editorText, addStep, newTitle, newBody, open, closeCalls,
                 pending, lastKey, before, dispatched, typedTitle>>
  /\ UiFrame

NextUi ==
  \/ \E list \in IssueLists : OpenTodo(list)
  \/ \E key \in Keys : HandleInput(key)
  \/ ActionCompletes
  \/ \E width \in Widths : Render(width)

SpecUi == InitUi /\ [][NextUi]_vars
\* ------------------------------------------------------ todo list UI: claims
Pressed(mode, keys) == lastKey \in keys /\ before.viewMode = mode
NothingSent == dispatched = <<>> /\ pending = NoAction

\* C17: Enter in list mode leads to detail mode only with an issue selected
\* and otherwise leaves the mode at list; in detail mode Enter and Escape lead
\* to list mode, and any other key changes nothing and dispatches nothing.
C17_DetailTransitions ==
  /\ Pressed("list", {"return"}) =>
       /\ viewMode \in {"list", "detail"}
       /\ viewMode = "detail" => selectedIssue(before) # 0
       /\ selectedIssue(before) = 0 => viewMode = "list"
       /\ NothingSent \/ before.isLoading
  /\ Pressed("detail", {"return", "escape"}) => (viewMode = "list" /\ NothingSent)
  /\ Pressed("detail", Keys \ {"return", "escape"}) =>
       (Component = before /\ NothingSent /\ open /\ closeCalls = 0)

C17_Witness ==
  /\ Pressed("detail", {"escape"})
  /\ viewMode = "list"
  /\ selectedIssue(before) = 2
  /\ Component = [before EXCEPT !.viewMode = "list"]

\* the one onAction call made by the last input
Sent == dispatched[1]

\* C18: in add mode a non-empty title moves from the title step to the body
\* step, a blank title stays in the title step and dispatches nothing; the
\* body step returns to list mode, sets the loading state before it
\* dispatches, and dispatches exactly one add action with the trimmed title
\* of the title step and the trimmed body.
C18_AddSubmit ==
  Pressed("add", {"return"}) =>
    IF before.addStep = "title"
    THEN /\ viewMode = "add"
         /\ NothingSent
         /\ typedTitle = before.editorText
         /\ IF Trim(before.editorText) # <<>>
            THEN addStep = "body" /\ newTitle = Trim(before.editorText)
            ELSE addStep = "title"
    ELSE /\ viewMode = "list"
         /\ isLoading
         /\ Len(dispatched) = 1
         /\ Sent = [action |-> "add", issue |-> 0, title |-> Trim(typedTitle),
                    body |-> Trim(before.editorText), loading |-> TRUE]
         /\ Sent.title # <<>>
         /\ pending = Sent

C18_Witness ==
  /\ Pressed("add", {"return"})
  /\ before.addStep = "body"
  /\ typedTitle # Trim(typedTitle)
  /\ before.editorText # Trim(before.editorText)
  /\ Sent.title = <<"x">>
  /\ Sent.body = <<"x">>
  /\ Sent.loading

\* C19: Escape in add mode, at either step, returns to list mode with title,
\* body and editor text cleared and the step back at title, dispatching
\* nothing; a later "a" opens an empty title step.
C19_EscapeDiscardsDraft ==
  /\ Pressed("add", {"escape"}) =>
       /\ viewMode = "list"
       /\ addStep = "title"
       /\ editorText = <<>>
       /\ newTitle = <<>>
       /\ newBody = <<>>
       /\ NothingSent
       /\ open
       /\ closeCalls = 0
  /\ (Pressed("list", {"a"}) /\ ~before.isLoading) =>
       /\ viewMode = "add"
       /\ addStep = "title"
       /\ editorText = <<>>
       /\ newTitle = <<>>
       /\ newBody = <<>>
       /\ NothingSent

C19_Witness ==
  /\ Pressed("add", {"escape"})
  /\ before.addStep = "body"
  /\ before.newTitle # <<>>
  /\ before.editorText # <<>>
  /\ viewMode = "list"
  /\ editorText = <<>>
  /\ newTitle = <<>>

ActionKeys == {"o", "s", "x", "g", "c", "r"}
ActionOf(key) ==
  CASE key = "o" -> "open" [] key = "s" -> "start" [] key = "x" -> "close"
    [] key = "g" -> "reopen" [] key = "c" -> "comment" [] OTHER -> "refresh"
\* the state of the issue selected before the last key, "none" without one
SelectedStateBefore ==
  IF selectedIssue(before) = 0 THEN "none"
  ELSE before.issues[selectedIssue(before)]
\* the condition under which the last key dispatches
ActionEnabledBefore ==
  /\ ~before.isLoading
  /\ CASE lastKey = "o" -> SelectedStateBefore # "none"
       [] lastKey \in {"s", "x", "c"} -> SelectedStateBefore = "open"
       [] lastKey = "g" -> SelectedStateBefore = "closed"
       [] OTHER -> TRUE
ViewStateKept ==
  /\ viewMode = before.viewMode
  /\ selectedIndex = before.selectedIndex
  /\ addStep = before.addStep
  /\ editorText = before.editorText
  /\ newTitle = before.newTitle
  /\ newBody = before.newBody
  /\ issues = before.issues

\* C21 (as stated): each of o, s, x, g, c, r in list mode dispatches an action
\* to the owner and leaves the view mode, the selection, the add step and the
\* draft unchanged.
C21_Original ==
  Pressed("list", ActionKeys) => (Len(dispatched) = 1 /\ ViewStateKept)

\* C21 (amended): each of o, s, x, g, c, r in list mode leaves the view mode,
\* the selection, the add step and the draft unchanged and dispatches at most
\* one action: r always dispatches refresh; o dispatches open when an issue is
\* selected; s, x and c dispatch start, close and comment when the selected
\* issue is open; g dispatches reopen when it is closed; otherwise, and while
\* the component is loading, the key dispatches nothing.
C21_ActionKeys ==
  Pressed("list", ActionKeys) =>
    /\ ViewStateKept
    /\ closeCalls = 0
    /\ IF ActionEnabledBefore
       THEN /\ Len(dispatched) = 1
            /\ Sent.action = ActionOf(lastKey)
            /\ Sent.issue = (IF lastKey = "r" THEN 0 ELSE selectedIssue(before))
       ELSE dispatched = <<>> /\ Component = before

C21_Witness ==
  /\ Pressed("list", {"g"})
  /\ before.selectedIndex = 1
  /\ before.issues = <<"closed", "open">>
  /\ Len(dispatched) = 1
  /\ Sent.action = "reopen"
  /\ Sent.issue = 1
  /\ ViewStateKept

\* C22: the selection index is never negative and, whenever at least one
\* issue is listed, never exceeds the number of selectable issues minus one;
\* an update of the issue list leaves it within the new list.
C22_SelectionInRange ==
  /\ selectedIndex >= 0
  /\ Len(DisplayOrder(issues)) >= 1 => selectedIndex <= Len(DisplayOrder(issues)) - 1
  /\ Len(DisplayOrder(issues)) = 0 => selectedIndex = 0

C22_Witness ==
  /\ lastKey = "none"
  /\ before.selectedIndex = 1
  /\ Len(issues) = 1
  /\ selectedIndex = 0
  /\ ~isLoading

\* C23: the render cache is never stale: whenever cached lines exist they are
\* the lines of the component's current state at the cached width, because
\* every operation that changes the state clears the cache.
C23_CacheNeverStale ==
  /\ cachedLines # <<>> => cachedLines = Lines(Component, cachedWidth)
  /\ (cachedLines = <<>>) = (cachedWidth = 0)

C23_Witness ==
  /\ cachedLines # <<>>
  /\ cachedWidth = 120
  /\ viewMode = "add"
  /\ addStep = "title"
  /\ statusMessage = "Title cannot be empty"
  /\ lastKey = "return"

\* ------------------------------------------------------- summary generators
\* generatePrSummary, fillPrTemplate and generatePrUpdateSummary of pr.ts, and
\* the message performCommit builds with generateCommitSummary
Generators == {"generatePrSummary", "fillPrTemplate", "generatePrUpdateSummary",
               "commitMessage"}

\* arguments: context says whether the context string (sessionContext,
\* scopedContext, assistantText) has non-blank text, commits whether commits
\* were passed, close whether the issue link says Closes
GenArgs == [context : BOOLEAN, commits : BOOLEAN, close : BOOLEAN]

issueLink(args) == IF args.close THEN "Closes #n" ELSE "Related: #n"
ModelText == "text of the response"

\* the string each generator returns without model output
Fallback(fn, args) ==
  CASE fn = "generatePrSummary" ->
         <<issueLink(args), "\n\n## Summary\n\n(Add summary of changes here)">>
    [] fn = "fillPrTemplate" -> <<issueLink(args), "\n\n", "template">>
    [] fn = "generatePrUpdateSummary" ->
         IF args.commits
         THEN <<"## Feedback addressed\n\n(Changes pushed)", "\n\n### Commits\n">>
         ELSE <<"## Feedback addressed\n\n(Responded to feedback)">>
    [] OTHER -> <<"pi: ", "generateFallbackSummary(userPrompt)">>

\* the string returned when the response has text
FromModel(fn, args) ==
  CASE fn = "generatePrUpdateSummary" ->
         IF args.commits THEN <<ModelText, "\n\n### Commits\n">> ELSE <<ModelText>>
    [] fn = "commitMessage" -> <<"pi: ", ModelText>>
    [] OTHER -> <<ModelText>>

\* the test each generator makes before it looks for a model
ReturnsEarly(fn, args) ==
  CASE fn = "generatePrSummary" -> ~args.context
    [] fn = "fillPrTemplate" -> FALSE
    [] fn = "generatePrUpdateSummary" -> ~args.context /\ ~args.commits
    [] OTHER -> ~args.context

\* what the completion call may do: throw, answer without a text block,
\* answer with text; a commit summary may also be shorter than 5 characters
Responses(fn) ==
  {"throws", "empty", "text"} \cup (IF fn = "commitMessage" THEN {"short"} ELSE {})

GenFrame ==
  UNCHANGED <<codecVars, toolVars, nameVars, sessVars, gwVars, uiVars, acVars,
              ctxVars, wzVars,
              lateVars>>

InitSummary ==
  /\ GenIdle /\ AcIdle /\ CtxIdle /\ WzIdle /\ LateIdle
  /\ CodecIdle /\ ToolIdle /\ NameIdle /\ SessIdle /\ GwIdle /\ UiIdle

GenCall(fn, args) ==
  /\ genPc \in {"idle", "returned"}
  /\ genFn' = fn
  /\ genArgs' = args
  /\ genModel' = "unasked"
  /\ genResponse' = "unasked"
  /\ IF ReturnsEarly(fn, args)
     THEN genPc' = "returned" /\ genResult' = Fallback(fn, args)
     ELSE genPc' = "model" /\ genResult' = <<>>
  /\ GenFrame

\* getSmallModel, or getModel and getApiKey, returns
Gen_ModelReturns ==
  /\ genPc = "model"
  /\ \/ /\ genModel' = "none"
        /\ genPc' = "returned"
        /\ genResult' = Fallback(genFn, genArgs)
     \/ /\ genModel' = "ok"
        /\ genPc' = "complete"
        /\ UNCHANGED genResult
  /\ UNCHANGED <<genFn, genArgs, genResponse>>
  /\ GenFrame

\* complete(model, ...) returns or throws
Gen_CompleteReturns ==
  /\ genPc = "complete"
  /\ \E r \in Responses(genFn) :
       /\ genResponse' = r
       /\ genResult' = (IF r = "text" THEN FromModel(genFn, genArgs)
                        ELSE Fallback(genFn, genArgs))
  /\ genPc' = "returned"
  /\ UNCHANGED <<genFn, genArgs, genModel>>
  /\ GenFrame

NextSummary ==
  \/ \E fn \in Generators, args \in GenArgs : GenCall(fn, args)
  \/ Gen_ModelReturns
  \/ Gen_CompleteReturns

SpecSummary == InitSummary /\ [][NextSummary]_vars

\* ------------------------------------------------ summary generators: claims
UsesModelOutput == \E i \in 1..Len(genResult) : genResult[i] = ModelText

\* C24: each summary generator returns its fallback text, without model
\* output, whenever its context is blank, no model or API key is available,
\* the completion call throws, or the response has no text.
C24_FallbackWhenUnavailable ==
  (/\ genPc = "returned"
   /\ \/ ~genArgs.context
      \/ genModel = "none"
      \/ genResponse \in {"throws", "empty"})
  => (genResult = Fallback(genFn, genArgs) /\ ~UsesModelOutput)

\* -------------------------------------------------------------- auto-commit
\* the longest first line a fallback summary keeps, and the shortest summary
\* that is accepted
SummaryLimit == 50
MinSummary == 5

Strategies == {"per-interaction", "per-turn"}

Rep(tok, n) == [i \in 1..n |-> tok]

\* prompts the user may type: empty, shorter than the minimum, at the
\* minimum, at and over the limit, two lines, and an empty first line
Prompts ==
  {<<>>, Rep("a", MinSummary - 1), Rep("a", MinSummary), Rep("a", SummaryLimit),
   Rep("a", SummaryLimit + 1), Rep("a", MinSummary) \o NL \o Rep("b", MinSummary),
   NL \o Rep("a", MinSummary)}

\* userPrompt.split("\n")[0]
FirstLine(s) ==
  IF IndexOf(s, "\n") = 0 THEN s ELSE SubSeq(s, 1, IndexOf(s, "\n") - 1)

generateFallbackSummary(p) ==
  LET firstLine == FirstLine(p)
      summary == IF Len(firstLine) > SummaryLimit
                 THEN SubSeq(firstLine, 1, SummaryLimit) \o <<"...">>
                 ELSE firstLine
  IN IF p # <<>> /\ Len(Trim(summary)) >= MinSummary THEN summary
     ELSE <<"changes">>

\* what generateCommitSummary returns: null, or a summary of 5 to 50
\* characters
HaikuSummaries == {Null, <<"generated summary">>}

CommitMessage(summary) == <<"pi:", " ">> \o summary
\* a commit somebody made by hand
Wip == <<"w", "i", "p">>

\* assistantText after a turn_end with the given text
Accumulate(acc, text) == IF acc # <<>> THEN acc \o NL \o NL \o text ELSE text

\* handlers that commit at the end of every turn and of every interaction
CommitsAt_always(event, strat) ==
  event \in {"turn_end", "agent_end", "session_shutdown"}

\* the events whose handler calls performCommit under a strategy
CommitsAt(event, strat) ==
  CASE event = "turn_end" -> strat = "per-turn"
    [] event = "agent_end" -> strat = "per-interaction"
    [] event = "session_shutdown" -> TRUE
    [] OTHER -> FALSE

\* the events whose handler calls resetState under a strategy
ResetsAt(event, strat) ==
  CASE event = "agent_start" -> strat = "per-interaction"
    [] event = "turn_start" -> strat = "per-turn"
    [] event \in {"session_switch", "session_fork"} -> TRUE
    [] OTHER -> FALSE

\* a handler that runs no git command
NoGit ==
  /\ gitRan' = {}
  /\ committed' = <<>>
  /\ viaHaiku' = FALSE
  /\ UNCHANGED log

\* performCommit(ctx, skipHaiku), reading the assistant text and the user
\* prompt the handler has at the moment of the call
performCommit(skipHaiku, text, up) ==
  IF ~inGitRepo THEN NoGit
  ELSE \/ /\ gitRan' = {"add"}
          /\ committed' = <<>>
          /\ viaHaiku' = FALSE
          /\ UNCHANGED log
       \/ /\ gitRan' = {"add", "diff"}
          /\ committed' = <<>>
          /\ viaHaiku' = FALSE
          /\ UNCHANGED log
       \/ \E haikuSummary \in HaikuSummaries :
            LET asked == ~skipHaiku /\ text # <<>>
                summary == IF asked /\ haikuSummary # Null THEN haikuSummary
                           ELSE generateFallbackSummary(up)
            IN /\ gitRan' = {"add", "diff", "commit"}
               /\ committed' = CommitMessage(summary)
               /\ viaHaiku' = (asked /\ haikuSummary # Null)
               /\ \/ /\ Len(log) < MaxCommits
                     /\ log' = Append(log, CommitMessage(summary))
                  \/ UNCHANGED log

\* the part every handler shares: which handler ran, whether it reset the
\* state or committed
Handler(event, text, up) ==
  /\ lastEvent' = event
  /\ undo' = NoUndo
  /\ IF CommitsAt(event, strategy)
     THEN /\ performCommit(event = "session_shutdown", text, up)
          /\ tried' = (IF event \in DOMAIN tried
                       THEN [tried EXCEPT ![event] = tried[event] + 1]
                       ELSE tried)
     ELSE NoGit /\ UNCHANGED tried

AcFrame ==
  UNCHANGED <<codecVars, toolVars, nameVars, sessVars, gwVars, uiVars, genVars,
              ctxVars, wzVars,
              lateVars>>

InitAutoCommit ==
  /\ strategy \in Strategies /\ LateIdle
  /\ inGitRepo = FALSE
  /\ assistantText = <<>>
  /\ userPrompt = <<>>
  /\ probe = "none"
  /\ hostPc = "start"
  /\ prompt = <<>>
  /\ turns = 0
  /\ tried = NoTries
  /\ lastEvent = "none"
  /\ gitRan = {}
  /\ committed = <<>>
  /\ viaHaiku = FALSE
  /\ log \in {<<>>, <<Wip>>}
  /\ undo = NoUndo
  /\ GenIdle /\ CtxIdle /\ WzIdle
  /\ CodecIdle /\ ToolIdle /\ NameIdle /\ SessIdle /\ GwIdle /\ UiIdle

\* session_start: probe for a git repository
Ac_SessionStart ==
  /\ hostPc = "start"
  /\ \E code \in {0, 128} :
       /\ inGitRepo' = (code = 0)
       /\ probe' = (IF code = 0 THEN "ok" ELSE "failed")
  /\ hostPc' = "idle"
  /\ lastEvent' = "session_start"
  /\ gitRan' = {"rev-parse"}
  /\ committed' = <<>>
  /\ viaHaiku' = FALSE
  /\ undo' = NoUndo
  /\ UNCHANGED <<strategy, assistantText, userPrompt, prompt, turns, tried, log>>
  /\ AcFrame

\* session_switch: probe again and reset
Ac_SessionSwitch ==
  /\ hostPc = "idle"
  /\ \E code \in {0, 128} :
       /\ inGitRepo' = (code = 0)
       /\ probe' = (IF code = 0 THEN "ok" ELSE "failed")
  /\ assistantText' = <<>>
  /\ userPrompt' = <<>>
  /\ lastEvent' = "session_switch"
  /\ gitRan' = {"rev-parse"}
  /\ committed' = <<>>
  /\ viaHaiku' = FALSE
  /\ undo' = NoUndo
  /\ UNCHANGED <<strategy, hostPc, prompt, turns, tried, log>>
  /\ AcFrame

Ac_SessionFork ==
  /\ hostPc = "idle"
  /\ lastEvent # "session_fork"
  /\ assistantText' = <<>>
  /\ userPrompt' = <<>>
  /\ Handler("session_fork", <<>>, <<>>)
  /\ UNCHANGED <<strategy, inGitRepo, probe, hostPc, prompt, turns>>
  /\ AcFrame

\* before_agent_start: the prompt of the new interaction is kept
Ac_BeforeAgentStart(p) ==
  /\ hostPc = "idle"
  /\ hostPc' = "before_agent_start"
  /\ userPrompt' = p
  /\ prompt' = p
  /\ turns' = 0
  /\ tried' = NoTries
  /\ lastEvent' = "before_agent_start"
  /\ undo' = NoUndo
  /\ NoGit
  /\ UNCHANGED <<strategy, inGitRepo, assistantText, probe>>
  /\ AcFrame

Ac_AgentStart ==
  /\ hostPc = "before_agent_start"
  /\ hostPc' = "agent"
  /\ IF ResetsAt("agent_start", strategy)
     THEN assistantText' = <<>> /\ userPrompt' = <<>>
     ELSE UNCHANGED <<assistantText, userPrompt>>
  /\ Handler("agent_start", assistantText', userPrompt')
  /\ UNCHANGED <<strategy, inGitRepo, probe, prompt, turns>>
  /\ AcFrame

Ac_TurnStart ==
  /\ hostPc = "agent"
  /\ turns < MaxTurns
  /\ hostPc' = "turn"
  /\ IF ResetsAt("turn_start", strategy)
     THEN assistantText' = <<>> /\ userPrompt' = <<>>
     ELSE UNCHANGED <<assistantText, userPrompt>>
  /\ Handler("turn_start", assistantText', userPrompt')
  /\ UNCHANGED <<strategy, inGitRepo, probe, prompt, turns>>
  /\ AcFrame

\* turn_end: the turn's assistant text is added, then per-turn commits
Ac_TurnEnd(text) ==
  /\ hostPc = "turn"
  /\ hostPc' = "agent"
  /\ turns' = turns + 1
  /\ assistantText' = Accumulate(assistantText, text)
  /\ Handler("turn_end", assistantText', userPrompt)
  /\ UNCHANGED <<strategy, inGitRepo, userPrompt, probe, prompt>>
  /\ AcFrame

Ac_AgentEnd ==
  /\ hostPc = "agent"
  /\ hostPc' = "idle"
  /\ Handler("agent_end", assistantText, userPrompt)
  /\ UNCHANGED <<strategy, inGitRepo, assistantText, userPrompt, probe, prompt,
                 turns>>
  /\ AcFrame

Ac_SessionShutdown ==
  /\ hostPc \notin {"start", "shutdown"}
  /\ hostPc' = "shutdown"
  /\ Handler("session_shutdown", assistantText, userPrompt)
  /\ UNCHANGED <<strategy, inGitRepo, assistantText, userPrompt, probe, prompt,
                 turns>>
  /\ AcFrame

\* somebody commits by hand between two interactions
UserCommits ==
  /\ hostPc = "idle"
  /\ Len(log) < MaxCommits
  /\ log' = Append(log, Wip)
  /\ lastEvent' = "none"
  /\ gitRan' = {}
  /\ committed' = <<>>
  /\ viaHaiku' = FALSE
  /\ undo' = NoUndo
  /\ UNCHANGED <<strategy, inGitRepo, assistantText, userPrompt, probe, hostPc,
                 prompt, turns, tried>>
  /\ AcFrame

\* /undo that resets whatever the last commit is
undoHandler_anyCommit(hasUI, answer) ==
  LET logOk   == inGitRepo /\ log # <<>>
      message == IF logOk THEN Trim(log[Len(log)] \o NL) ELSE <<>>
      piMade  == StartsWith(message, <<"pi:">>)
      asked   == logOk /\ ~piMade /\ hasUI
  IN [ran |-> TRUE, inRepo |-> inGitRepo, logOk |-> logOk, subject |-> message,
      hasUI |-> hasUI, asked |-> asked, proceed |-> (asked /\ answer),
      reset |-> logOk]

\* the /undo handler up to the reset: what it reads, whether it asks, and
\* whether it goes on to git reset --hard HEAD~1
undoHandler(hasUI, answer) ==
  LET logOk   == inGitRepo /\ log # <<>>
      message == IF logOk THEN Trim(log[Len(log)] \o NL) ELSE <<>>
      piMade  == StartsWith(message, <<"pi:">>)
      asked   == logOk /\ ~piMade /\ hasUI
  IN [ran |-> TRUE, inRepo |-> inGitRepo, logOk |-> logOk, subject |-> message,
      hasUI |-> hasUI, asked |-> asked, proceed |-> (asked /\ answer),
      reset |-> (logOk /\ (piMade \/ (asked /\ answer)))]

\* the user runs /undo; the reset fails when HEAD has no parent
Undo(hasUI, answer) ==
  /\ hostPc = "idle"
  /\ undo' = undoHandler(hasUI, answer)
  /\ gitRan' = (IF ~inGitRepo THEN {}
                ELSE IF undo'.reset THEN {"log", "reset"} ELSE {"log"})
  /\ \/ /\ undo'.reset
        /\ Len(log) >= 2
        /\ log' = SubSeq(log, 1, Len(log) - 1)
     \/ UNCHANGED log
  /\ lastEvent' = "undo"
  /\ committed' = <<>>
  /\ viaHaiku' = FALSE
  /\ UNCHANGED <<strategy, inGitRepo, assistantText, userPrompt, probe, hostPc,
                 prompt, turns, tried>>
  /\ AcFrame

NextAutoCommit ==
  \/ Ac_SessionStart
  \/ Ac_SessionSwitch
  \/ Ac_SessionFork
  \/ \E p \in Prompts : Ac_BeforeAgentStart(p)
  \/ Ac_AgentStart
  \/ Ac_TurnStart
  \/ \E text \in {<<>>, <<"t">>} : Ac_TurnEnd(text)
  \/ Ac_AgentEnd
  \/ Ac_SessionShutdown
  \/ UserCommits
  \/ \E hasUI \in BOOLEAN, answer \in BOOLEAN : Undo(hasUI, answer)

SpecAutoCommit == InitAutoCommit /\ [][NextAutoCommit]_vars

\* -------------------------------------------------------- auto-commit: claims
\* C25: in the event order before_agent_start, agent_start, (turn_start,
\* turn_end)*, agent_end, a commit made without a generated summary has the
\* message "pi: " followed by the first line of that interaction's prompt cut
\* to 50 characters, with "..." when it was longer, and "pi: changes" only
\* when that gives fewer than 5 characters.
C25_FallbackFromPrompt ==
  (/\ lastEvent \in {"turn_end", "agent_end"}
   /\ committed # <<>>
   /\ ~viaHaiku)
  => committed = CommitMessage(generateFallbackSummary(prompt))

\* C26: under per-interaction performCommit is called once per interaction,
\* by agent_end and never by turn_end; under per-turn it is called by every
\* turn_end and never by agent_end; session_shutdown calls it under both; and
\* no handler runs git add or git commit unless the last probe for a git
\* repository succeeded.
C26_CommitPoints ==
  /\ strategy = "per-interaction" =>
       /\ tried.turn_end = 0
       /\ hostPc \in {"before_agent_start", "agent", "turn"} => tried.agent_end = 0
       /\ lastEvent = "agent_end" =>
            (tried.agent_end = 1 /\ (inGitRepo => "add" \in gitRan))
  /\ strategy = "per-turn" =>
       /\ tried.agent_end = 0
       /\ tried.turn_end = turns
       /\ (lastEvent = "turn_end" /\ inGitRepo) => "add" \in gitRan
       /\ lastEvent = "agent_end" => gitRan = {}
  /\ lastEvent = "session_shutdown" =>
       (tried.session_shutdown = 1 /\ (inGitRepo => "add" \in gitRan))
  /\ probe # "ok" => gitRan \cap {"add", "commit"} = {}
  /\ inGitRepo = (probe = "ok")

C26_Witness ==
  /\ strategy = "per-interaction"
  /\ lastEvent = "agent_end"
  /\ turns = 2
  /\ tried = [turn_end |-> 0, agent_end |-> 1, session_shutdown |-> 0]
  /\ "commit" \in gitRan
  /\ viaHaiku

\* C27: /undo runs git reset --hard HEAD~1 only when the session is in a git
\* repository, a last commit exists and either its subject starts with "pi:"
\* or the user confirmed in interactive mode; without a UI a commit whose
\* subject does not start with "pi:" is never reset.
C27_UndoOnlyPiOrConfirmed ==
  /\ "reset" \in gitRan =>
       /\ lastEvent = "undo"
       /\ undo.inRepo
       /\ probe = "ok"
       /\ undo.logOk
       /\ undo.subject # <<>>
       /\ \/ StartsWith(undo.subject, <<"pi:">>)
          \/ undo.hasUI /\ undo.asked /\ undo.proceed
  /\ (lastEvent = "undo" /\ ~undo.hasUI /\ ~StartsWith(undo.subject, <<"pi:">>)) =>
       "reset" \notin gitRan
  /\ undo.asked => (undo.hasUI /\ ~StartsWith(undo.subject, <<"pi:">>))

C27_Witness ==
  /\ lastEvent = "undo"
  /\ "reset" \in gitRan
  /\ undo.subject = Wip
  /\ undo.hasUI
  /\ undo.proceed
  /\ log = <<CommitMessage(<<"changes">>)>>

\* --------------------------------------------------------- context gatherer
\* gatherSessionContext and gatherScopedSessionContext of pr.ts, with every
\* string given by its length
ContextLimit == 8000
MessageLimit == 500
CommandLimit == 100

\* s.slice(0, limit).length for a string of length n
SliceLen(n, limit) == IF n > limit THEN limit ELSE n

\* entries of a branch: messages of a user or the assistant with their text
\* length, a bash result with the length of its command, a write result
\* without a path, a failed tool result, and an entry that is no message
BranchEntries ==
  [kind : {"user"}, len : {0, MessageLimit}]
  \cup [kind : {"assistant"}, len : {MessageLimit + 1, ContextLimit + 1}]
  \cup [kind : {"bash"}, len : {CommandLimit + 1}]
  \cup [kind : {"write", "toolError", "label"}, len : {0}]

\* length of the fixed text around the entry's text: "User: ", "Assistant: ",
\* "Tool: write ", "Tool: bash `" in front and "\n\n" or "`\n\n" after it
AroundLen(kind) ==
  CASE kind = "user" -> 6 + 2
    [] kind = "assistant" -> 11 + 2
    [] kind = "write" -> 12 + 2
    [] kind = "bash" -> 12 + 3
    [] OTHER -> 0

\* a gatherer that adds each message in full
Rendered_whole(e) ==
  IF e.kind \in {"toolError", "label"} \/ e.len = 0 THEN 0
  ELSE AroundLen(e.kind) + e.len

\* number of characters one entry adds to sessionContext
Rendered(e) ==
  IF e.kind \in {"toolError", "label"} \/ e.len = 0 THEN 0
  ELSE CASE e.kind \in {"user", "assistant"} ->
              AroundLen(e.kind) + SliceLen(e.len, MessageLimit)
         [] e.kind = "bash" -> AroundLen(e.kind) + SliceLen(e.len, CommandLimit)
         [] OTHER -> AroundLen(e.kind) + e.len

CtxFrame ==
  UNCHANGED <<codecVars, toolVars, nameVars, sessVars, gwVars, uiVars, genVars,
              acVars, wzVars,
              lateVars>>

InitContext ==
  /\ CtxIdle /\ GenIdle /\ AcIdle /\ WzIdle /\ LateIdle
  /\ CodecIdle /\ ToolIdle /\ NameIdle /\ SessIdle /\ GwIdle /\ UiIdle

GatherCall(fn) ==
  /\ ctxPc \in {"idle", "returned"}
  /\ ctxFn' = fn
  /\ ctxPc' = "loop"
  /\ sessionContext' = 0
  /\ ctxEntry' = NoEntry
  /\ added' = 0
  /\ ctxOut' = NoNumber
  /\ CtxFrame

\* one iteration of the loop over the entries
GatherEntry(e) ==
  /\ ctxPc = "loop"
  /\ sessionContext <= MaxContext
  /\ ctxEntry' = e
  /\ added' = Rendered(e)
  /\ sessionContext' = sessionContext + Rendered(e)
  /\ UNCHANGED <<ctxFn, ctxPc, ctxOut>>
  /\ CtxFrame

\* the loop ends, at the last entry or in the catch block, and the function
\* returns sessionContext.slice(0, 8000)
GatherReturns ==
  /\ ctxPc = "loop"
  /\ ctxPc' = "returned"
  /\ ctxOut' = SliceLen(sessionContext, ContextLimit)
  /\ UNCHANGED <<ctxFn, sessionContext, ctxEntry, added>>
  /\ CtxFrame

NextContext ==
  \/ \E fn \in {"gatherSessionContext", "gatherScopedSessionContext"} : GatherCall(fn)
  \/ \E e \in BranchEntries : GatherEntry(e)
  \/ GatherReturns

SpecContext == InitContext /\ [][NextContext]_vars

\* C28: what a context gatherer returns is never longer than 8000 characters,
\* and a user or assistant message adds no more than the first 500 characters
\* of its text, cut before it is added to the context.
C28_ContextBounded ==
  /\ ctxPc = "returned" =>
       /\ ctxOut >= 0
       /\ ctxOut <= ContextLimit
       /\ ctxOut <= sessionContext
       /\ sessionContext <= ContextLimit => ctxOut = sessionContext
  /\ ctxEntry.kind \in {"user", "assistant"} =>
       /\ added - AroundLen(ctxEntry.kind) <= MessageLimit
       /\ added - AroundLen(ctxEntry.kind) <= ctxEntry.len
       /\ ctxEntry.len \in 1..MessageLimit =>
            added = AroundLen(ctxEntry.kind) + ctxEntry.len
       /\ sessionContext >= added

C28_Witness ==
  /\ ctxPc = "returned"
  /\ ctxFn = "gatherScopedSessionContext"
  /\ sessionContext > ContextLimit
  /\ ctxOut = ContextLimit
  /\ ctxEntry = [kind |-> "assistant", len |-> ContextLimit + 1]
  /\ added = 11 + MessageLimit + 2

\* ------------------------------------------------------------------ /todo-pr
\* the value of the call findPrTemplate() in the handler: the call is not
\* awaited, so the value is the promise, whatever the promise settles to
findPrTemplateCall == <<"[object Promise]">>

\* JavaScript truthiness of a string, null or object value
Truthy(v) == v # Null /\ v # <<>>

CloseChoices == {"Related", "Closes", "Cancel", "undefined"}
ConfirmChoices == {"Create PR", "Cancel", "undefined"}
\* what ctx.ui.editor may return: undefined, or the edited text
EditedBodies == {Null, <<>>, NL, <<"b">>, NL \o <<"b">> \o NL}

\* a final select that creates the PR unless Cancel was chosen
ConfirmsCreate_unlessCancel(choice) == choice # "Cancel"

\* the test made on the final select
ConfirmsCreate(choice) == choice = "Create PR"

WzFrame ==
  UNCHANGED <<codecVars, toolVars, nameVars, sessVars, gwVars, uiVars, genVars,
              acVars, ctxVars,
              lateVars>>

InitWizard ==
  /\ wzPc = "idle" /\ LateIdle
  /\ wz = NoWizard
  /\ wzCalls = <<>>
  /\ templateFile \in {Null, <<"template">>}
  /\ wzExit = "none"
  /\ GenIdle /\ AcIdle /\ CtxIdle
  /\ CodecIdle /\ ToolIdle /\ NameIdle /\ SessIdle /\ GwIdle /\ UiIdle

\* the handler goes on to its next awaited call
WzGoto(call, locals) ==
  /\ wzPc' = call
  /\ wz' = locals
  /\ wzCalls' = Append(wzCalls, call)
  /\ UNCHANGED <<templateFile, wzExit>>
  /\ WzFrame

\* the handler returns
WzReturn(how, locals) ==
  /\ wzPc' = "done"
  /\ wz' = locals
  /\ wzExit' = how
  /\ UNCHANGED <<wzCalls, templateFile>>
  /\ WzFrame

\* the user runs /todo-pr
TodoPr(hasUI) ==
  /\ wzPc = "idle"
  /\ IF hasUI THEN WzGoto("checkGhCli", wz)
     ELSE WzReturn("requires interactive mode", wz)

\* an awaited call rejects: checkGhCli is outside the try block, pushBranch
\* and createPr have their own catch, every other call is caught by the outer
\* catch
Wz_Throws ==
  /\ wzPc \notin {"idle", "done"}
  /\ WzReturn(CASE wzPc = "checkGhCli" -> "thrown"
                [] wzPc = "pushBranch" -> "Failed to push branch"
                [] wzPc = "createPr" -> "Failed to create PR"
                [] OTHER -> "Error", wz)

Wz_CheckGhCli ==
  /\ wzPc = "checkGhCli"
  /\ \/ WzReturn("gh not found", wz)
     \/ WzGoto("getCurrentBranch", wz)

Wz_GetCurrentBranch ==
  /\ wzPc = "getCurrentBranch"
  /\ \E b \in BranchNames, sn \in SessionNames :
       LET sessionIssueNum == extractIssueNumberFromSession(sn)
           branchIssueNum == extractIssueNumberFromBranch(b)
           issueNumber == IF sessionIssueNum # NoNumber THEN sessionIssueNum
                          ELSE branchIssueNum
           l == [wz EXCEPT !.currentBranch = b, !.sessionName = sn,
                           !.issueNumber = issueNumber]
       IN IF isMainBranch(b) THEN WzReturn("on main branch", l)
          ELSE IF /\ branchIssueNum # NoNumber
                  /\ sessionIssueNum # NoNumber
                  /\ branchIssueNum # sessionIssueNum
          THEN WzReturn("branch does not match session", l)
          ELSE IF issueNumber = NoNumber \/ issueNumber = 0
          THEN WzReturn("no issue number", l)
          ELSE WzGoto("getIssue", l)

Wz_GetIssue ==
  /\ wzPc = "getIssue"
  /\ \E st \in {"open", "closed"} :
       LET l == [wz EXCEPT !.issueState = st]
       IN IF st = "closed" THEN WzReturn("issue closed", l)
          ELSE WzGoto("hasUncommittedChanges", l)

Wz_HasUncommittedChanges ==
  /\ wzPc = "hasUncommittedChanges"
  /\ \E d \in {"true", "false"} :
       LET l == [wz EXCEPT !.dirty = d]
       IN IF d = "true" THEN WzGoto("confirm", l) ELSE WzGoto("hasUpstream", l)

Wz_Confirm ==
  /\ wzPc = "confirm"
  /\ \E answer \in {"true", "false"} :
       LET l == [wz EXCEPT !.proceed = answer]
       IN IF answer = "false" THEN WzReturn("declined", l)
          ELSE WzGoto("hasUpstream", l)

Wz_HasUpstream ==
  /\ wzPc = "hasUpstream"
  /\ \E up \in {"true", "false"} :
       LET l == [wz EXCEPT !.upstream = up]
       IN IF up = "false" THEN WzGoto("pushBranch", l)
          ELSE WzGoto("select close", l)

\* pushBranch resolved; its rejection is the push failure of Wz_Throws
Wz_PushBranch ==
  /\ wzPc = "pushBranch"
  /\ WzGoto("select close", [wz EXCEPT !.pushed = TRUE])

\* the close-choice prompt, gatherSessionContext, findPrTemplate() and the
\* choice of the generator
Wz_SelectClose ==
  /\ wzPc = "select close"
  /\ \E choice \in CloseChoices :
       LET template == findPrTemplateCall
           l == [wz EXCEPT !.closeChoice = choice,
                           !.shouldClose = (choice = "Closes"),
                           !.template = template,
                           !.bodyBy = IF Truthy(template) THEN "fillPrTemplate"
                                      ELSE "generatePrSummary"]
       IN IF choice = "Cancel" THEN WzReturn("Cancelled", [wz EXCEPT !.closeChoice = choice])
          ELSE WzGoto(l.bodyBy, l)

\* the generator returns a body and the editor opens on it
Wz_GenerateBody ==
  /\ wzPc \in {"fillPrTemplate", "generatePrSummary"}
  /\ WzGoto("editor", wz)

Wz_Editor ==
  /\ wzPc = "editor"
  /\ \E edited \in EditedBodies :
       LET l == [wz EXCEPT !.editedBody = edited]
       IN IF edited = Null \/ edited = <<>> \/ Trim(edited) = <<>>
          THEN WzReturn("Cancelled - empty PR description", l)
          ELSE WzGoto("select confirm", l)

Wz_SelectConfirm ==
  /\ wzPc = "select confirm"
  /\ \E choice \in ConfirmChoices :
       LET l == [wz EXCEPT !.confirmChoice = choice]
       IN IF ~ConfirmsCreate(choice) THEN WzReturn("Cancelled", l)
          ELSE WzGoto("createPr", l)

Wz_CreatePr ==
  /\ wzPc = "createPr"
  /\ WzReturn("Created PR", wz)

NextWizard ==
  \/ \E hasUI \in BOOLEAN : TodoPr(hasUI)
  \/ Wz_Throws
  \/ Wz_CheckGhCli
  \/ Wz_GetCurrentBranch
  \/ Wz_GetIssue
  \/ Wz_HasUncommittedChanges
  \/ Wz_Confirm
  \/ Wz_HasUpstream
  \/ Wz_PushBranch
  \/ Wz_SelectClose
  \/ Wz_GenerateBody
  \/ Wz_Editor
  \/ Wz_SelectConfirm
  \/ Wz_CreatePr

SpecWizard == InitWizard /\ [][NextWizard]_vars

\* ---------------------------------------------------------- /todo-pr: claims
WzCalled(call) == \E i \in 1..Len(wzCalls) : wzCalls[i] = call
\* the calls that are made on every path to createPr, in the handler's order
WizardOrder ==
  <<"checkGhCli", "getCurrentBranch", "getIssue", "hasUncommittedChanges",
    "hasUpstream", "select close", wz.bodyBy, "editor", "select confirm",
    "createPr">>
\* position of the only occurrence of a call
WzAt(call) == CHOOSE i \in 1..Len(wzCalls) : wzCalls[i] = call

\* C29: createPr is called only as the last of the wizard's steps, after, in
\* this order, the branch check passed, the issue was resolved and is open,
\* the uncommitted-changes check passed or was accepted, the push (when there
\* was no upstream) succeeded, the close choice was not Cancel, the edited
\* body is not blank and Create PR was chosen; a handler that ended at an
\* earlier step has not called createPr.
C29_LinearWizard ==
  /\ WzCalled("createPr") =>
       /\ SelectSeq(wzCalls, LAMBDA c : c \notin {"confirm", "pushBranch"}) = WizardOrder
       /\ ~isMainBranch(wz.currentBranch)
       /\ wz.issueNumber > 0
       /\ wz.issueNumber \in {extractIssueNumberFromSession(wz.sessionName),
                              extractIssueNumberFromBranch(wz.currentBranch)}
       /\ wz.issueState = "open"
       /\ wz.dirty = "false" \/ (wz.dirty = "true" /\ wz.proceed = "true")
       /\ WzCalled("confirm") = (wz.dirty = "true")
       /\ WzCalled("confirm") => WzAt("confirm") = WzAt("hasUncommittedChanges") + 1
       /\ wz.upstream = "true" \/ (wz.upstream = "false" /\ wz.pushed)
       /\ WzCalled("pushBranch") = (wz.upstream = "false")
       /\ WzCalled("pushBranch") => WzAt("pushBranch") = WzAt("hasUpstream") + 1
       /\ wz.closeChoice \in CloseChoices \ {"Cancel"}
       /\ wz.editedBody # Null
       /\ Trim(wz.editedBody) # <<>>
       /\ wz.confirmChoice = "Create PR"
  /\ (wzPc = "done" /\ wzExit \notin {"Created PR", "Failed to create PR"}) =>
       ~WzCalled("createPr")
  /\ wzExit = "Created PR" => WzCalled("createPr")

C29_Witness ==
  /\ wzExit = "Created PR"
  /\ wz.dirty = "true"
  /\ wz.proceed = "true"
  /\ wz.pushed
  /\ wz.closeChoice = "undefined"
  /\ wz.editedBody = NL \o <<"b">> \o NL
  /\ wz.currentBranch = <<"feature">>

\* C30: when no PR template file exists the body is built by
\* generatePrSummary, and fillPrTemplate is called only when a template file
\* was found.
C30_TemplateOnlyWhenFound ==
  wz.bodyBy # "none" =>
    /\ templateFile = Null => wz.bodyBy = "generatePrSummary"
    /\ wz.bodyBy = "fillPrTemplate" => templateFile # Null

\* ------------------------------------------------- reading gateway functions
\* What a CLI call printed is modelled by the value JSON.parse makes of it:
\* "malformed" is text JSON.parse throws on.
MaxItems == 2

JMalformed == [type |-> "malformed"]
JNull == [type |-> "null"]
JArray(items) == [type |-> "array", items |-> items]

\* gh issue list / gh issue view
IssueObjects ==
  {[type |-> "object", number |-> n, state |-> st] :
     n \in 1..MaxIssues, st \in {"OPEN", "CLOSED"}}
IssueStdouts ==
  {JMalformed, JNull} \cup IssueObjects
    \cup {JArray(items) : items \in SeqsUpTo(IssueObjects \cup {JNull}, MaxItems)}

\* gh repo view --json owner,name
RepoStdouts ==
  {JMalformed, [type |-> "object", owner |-> "login"],
   [type |-> "object", owner |-> Undefined]}

\* gh api .../comments and .../reviews
CommentObjects ==
  {[type |-> "object", body |-> b] : b \in {<<>>, <<"text">>}}
CommentArrays ==
  {JArray(items) : items \in SeqsUpTo(CommentObjects \cup {JNull}, MaxItems)}
FeedbackStdouts ==
  {JMalformed, [type |-> "object", body |-> <<>>]} \cup CommentArrays

Replies(stdouts) == [code : {0, 1}, stdout : stdouts]
FeedbackReplies ==
  [code : {0}, stdout : FeedbackStdouts]
    \cup [code : {1}, stdout : {JMalformed, JArray(<<[type |-> "object", body |-> <<"text">>]>>)}]

\* one raw issue as parseIssues and parseIssue convert it
ToGhIssue(raw) ==
  [number |-> IF raw.type = "object" THEN raw.number ELSE NoNumber,
   state |-> IF raw.type = "object" /\ raw.state = "CLOSED"
             THEN "closed" ELSE "open"]

\* reading a property of null throws a TypeError
ThrowsOnRead(raw) == raw.type = "null"

parseIssues(json) ==
  IF json.type = "malformed" THEN <<>>
  ELSE IF json.type # "array" THEN <<>>
  ELSE IF \E i \in 1..Len(json.items) : ThrowsOnRead(json.items[i]) THEN <<>>
  ELSE [i \in 1..Len(json.items) |-> ToGhIssue(json.items[i])]

parseIssue(json) ==
  IF json.type = "malformed" THEN NullIssue
  ELSE IF ThrowsOnRead(json) THEN NullIssue
  ELSE ToGhIssue(json)

\* result.code !== 0 in listIssues
ListFails_never(reply) == FALSE
ListFails(reply) == reply.code # 0

\* the body of one "for (const x of JSON.parse(stdout))" loop inside its try:
\* entries pushed before a throw stay in the array
RECURSIVE ForOf(_, _, _)
ForOf(acc, items, call) ==
  IF items = <<>> THEN acc
  ELSE LET item == Head(items)
       IN IF ThrowsOnRead(item) THEN acc
          ELSE IF call = "pulls reviews"
            THEN ForOf(IF Trim(item.body) # <<>>
                       THEN Append(acc, [body |-> item.body, state |-> "COMMENTED"])
                       ELSE acc,
                       Tail(items), call)
            ELSE ForOf(Append(acc, [body |-> item.body, state |-> Undefined]),
                       Tail(items), call)

\* one of the three "if (result.code === 0) { try { ... } catch {} }" blocks
FeedbackBlock_discard(acc, reply, call) ==
  IF reply.code # 0 THEN acc
  ELSE IF reply.stdout.type # "array" THEN <<>>
  ELSE ForOf(acc, reply.stdout.items, call)
FeedbackBlock(acc, reply, call) ==
  IF reply.code # 0 THEN acc
  ELSE IF reply.stdout.type # "array" THEN acc
  ELSE ForOf(acc, reply.stdout.items, call)

RdFunctions == {"listIssues", "getIssue", "getPrFeedback"}

FirstCall(fn) ==
  CASE fn = "listIssues" -> "issue list"
    [] fn = "getIssue" -> "issue view"
    [] OTHER -> "repo view"

\* the variables of the specifications above
earlyVars == <<codecVars, toolVars, nameVars, sessVars, gwVars, uiVars, genVars,
               acVars, ctxVars, wzVars>>
EarlyIdle ==
  /\ GenIdle /\ AcIdle /\ CtxIdle /\ WzIdle
  /\ CodecIdle /\ ToolIdle /\ NameIdle /\ SessIdle /\ GwIdle /\ UiIdle

ReadsFrame == UNCHANGED <<earlyVars, nuVars, corVars, usVars, ghVars, qaVars>>

InitReads == RdIdle /\ EarlyIdle /\ NuIdle /\ CorIdle /\ UsIdle /\ GhIdle /\ QaIdle

RdCall(fn) ==
  /\ rdPc \in {"idle", "returned", "thrown"}
  /\ rdFn' = fn
  /\ rdPc' = FirstCall(fn)
  /\ rdReplies' = <<>>
  /\ rdOut' = NoOut
  /\ rdError' = "none"
  /\ ReadsFrame

RdThrow(reply, message) ==
  /\ rdPc' = "thrown"
  /\ rdError' = message
  /\ rdReplies' = Append(rdReplies, reply)
  /\ UNCHANGED <<rdFn, rdOut>>

RdNext(reply, call, out) ==
  /\ rdPc' = call
  /\ rdOut' = out
  /\ rdReplies' = Append(rdReplies, reply)
  /\ UNCHANGED <<rdFn, rdError>>

Rd_IssueListReturns(reply) ==
  /\ rdPc = "issue list"
  /\ IF ListFails(reply)
     THEN RdThrow(reply, "Failed to list issues")
     ELSE RdNext(reply, "returned", [rdOut EXCEPT !.issues = parseIssues(reply.stdout)])
  /\ ReadsFrame

Rd_IssueViewReturns(reply) ==
  /\ rdPc = "issue view"
  /\ IF reply.code # 0
     THEN RdThrow(reply, "Failed to get issue")
     ELSE IF parseIssue(reply.stdout) = NullIssue
     THEN RdThrow(reply, "Could not parse issue")
     ELSE RdNext(reply, "returned", [rdOut EXCEPT !.issue = parseIssue(reply.stdout)])
  /\ ReadsFrame

Rd_RepoViewReturns(reply) ==
  /\ rdPc = "repo view"
  /\ IF reply.code # 0
     THEN RdThrow(reply, "Failed to get repository info")
     ELSE IF reply.stdout.type = "malformed" \/ reply.stdout.owner = Undefined
     THEN RdThrow(reply, "Failed to parse repository info")
     ELSE RdNext(reply, "pulls comments", rdOut)
  /\ ReadsFrame

Rd_PullsCommentsReturn(reply) ==
  /\ rdPc = "pulls comments"
  /\ RdNext(reply, "issues comments",
            [rdOut EXCEPT !.reviewComments = FeedbackBlock(@, reply, "pulls comments")])
  /\ ReadsFrame

Rd_IssuesCommentsReturn(reply) ==
  /\ rdPc = "issues comments"
  /\ RdNext(reply, "pulls reviews",
            [rdOut EXCEPT !.conversationComments = FeedbackBlock(@, reply, "issues comments")])
  /\ ReadsFrame

Rd_PullsReviewsReturn(reply) ==
  /\ rdPc = "pulls reviews"
  /\ RdNext(reply, "returned",
            [rdOut EXCEPT !.reviewComments = FeedbackBlock(@, reply, "pulls reviews")])
  /\ ReadsFrame

NextReads ==
  \/ \E fn \in RdFunctions : RdCall(fn)
  \/ \E reply \in Replies(IssueStdouts) : Rd_IssueListReturns(reply)
  \/ \E reply \in Replies(IssueStdouts) : Rd_IssueViewReturns(reply)
  \/ \E reply \in Replies(RepoStdouts) : Rd_RepoViewReturns(reply)
  \/ \E reply \in FeedbackReplies : Rd_PullsCommentsReturn(reply)
  \/ \E reply \in FeedbackReplies : Rd_IssuesCommentsReturn(reply)
  \/ \E reply \in FeedbackReplies : Rd_PullsReviewsReturn(reply)

SpecReads == InitReads /\ [][NextReads]_vars

\* C31: listIssues raises exactly when the CLI call fails, and returns the
\* empty list when the call succeeded with output that is malformed JSON or
\* not an array; getIssue raises when the CLI call fails and when its output
\* cannot be parsed.
C31_ParseFailures ==
  /\ (rdFn = "listIssues" /\ rdPc \in {"returned", "thrown"}) =>
       /\ (rdPc = "thrown") = (rdReplies[1].code # 0)
       /\ (rdPc = "returned" /\ rdReplies[1].stdout.type # "array") =>
            rdOut.issues = <<>>
  /\ (rdFn = "getIssue" /\ rdPc \in {"returned", "thrown"}) =>
       ((rdReplies[1].code # 0 \/ rdReplies[1].stdout.type = "malformed") =>
          rdPc = "thrown")

C31_Witness ==
  /\ rdFn = "listIssues"
  /\ rdPc = "returned"
  /\ rdReplies[1].stdout = JMalformed
  /\ rdOut.issues = <<>>

\* what a well-formed reply of one feedback call holds, as the entries of
\* the result
WellFormed(reply) ==
  /\ reply.code = 0
  /\ reply.stdout.type = "array"
  /\ \A i \in 1..Len(reply.stdout.items) : reply.stdout.items[i].type = "object"
Comments(reply) ==
  [i \in 1..Len(reply.stdout.items) |->
     [body |-> reply.stdout.items[i].body, state |-> Undefined]]
Reviews(reply) ==
  LET kept == SelectSeq(reply.stdout.items, LAMBDA r : Trim(r.body) # <<>>)
  IN [i \in 1..Len(kept) |-> [body |-> kept[i].body, state |-> "COMMENTED"]]
IsPrefix(s, t) == Len(s) <= Len(t) /\ SubSeq(t, 1, Len(s)) = s
IsSuffix(s, t) == Len(s) <= Len(t) /\ SubSeq(t, Len(t) - Len(s) + 1, Len(t)) = s

\* C32: once the repository is known getPrFeedback never raises; what a
\* well-formed reply of one of the three feedback calls holds is in the
\* result whatever the other two calls did; no review summary with an empty
\* body is in the result.
C32_IndependentFeedback ==
  rdFn = "getPrFeedback" =>
    /\ rdPc = "thrown" => Len(rdReplies) = 1
    /\ rdPc = "returned" =>
         /\ WellFormed(rdReplies[2]) =>
              IsPrefix(Comments(rdReplies[2]), rdOut.reviewComments)
         /\ WellFormed(rdReplies[3]) =>
              rdOut.conversationComments = Comments(rdReplies[3])
         /\ WellFormed(rdReplies[4]) =>
              IsSuffix(Reviews(rdReplies[4]), rdOut.reviewComments)
         /\ \A i \in 1..Len(rdOut.reviewComments) :
              rdOut.reviewComments[i].state # Undefined =>
                Trim(rdOut.reviewComments[i].body) # <<>>

C32_Witness ==
  /\ rdFn = "getPrFeedback"
  /\ rdPc = "returned"
  /\ WellFormed(rdReplies[2])
  /\ Len(rdReplies[2].stdout.items) = 2
  /\ rdReplies[3].code # 0
  /\ rdReplies[4].stdout = JMalformed
  /\ rdOut.reviewComments = Comments(rdReplies[2])

\* ------------------------------------------------ gh_todo tool: more claims
\* the running execute has started one of these calls
Called(names) == \E i \in 1..Len(calls) : calls[i] \in names

\* C33: an add action whose title is missing or empty starts no call other
\* than the probe for the gh binary, and, when that probe succeeds and the
\* call is not cancelled, returns the "title required" error.
C33_TitleRequired ==
  (pc # "idle" /\ params.action = "add" /\ params.title \in {Undefined, ""}) =>
    /\ calls = <<"checkGhCli">>
    /\ (pc = "done" /\ result.error \notin {"gh CLI not found", "Cancelled"}) =>
         result = PreconditionError("add", "title required")

C33_Witness ==
  /\ pc = "done"
  /\ params.action = "add"
  /\ params.title = ""
  /\ result = PreconditionError("add", "title required")
  /\ calls = <<"checkGhCli">>

Checkouts == {"checkoutBranch", "checkoutNewBranch"}

\* C39: the start action runs a checkout only after it found the current
\* branch to be main or master and the work tree clean; on any other branch
\* it asks neither for the work tree's state nor for a checkout; with
\* uncommitted changes it returns the "uncommitted changes" error and runs
\* no pull, no branch lookup and no checkout.
C39_CheckoutOnlyFromCleanMain ==
  (pc # "idle" /\ params.action = "start") =>
    /\ Called(Checkouts) =>
         /\ isMainBranch(loc.currentBranch)
         /\ loc.dirty = "false"
    /\ (Called({"getCurrentBranch"}) /\ pc # "getCurrentBranch"
          /\ ~isMainBranch(loc.currentBranch)) =>
         ~Called(Checkouts \cup {"hasUncommittedChanges", "pullBranch"})
    /\ loc.dirty = "true" =>
         /\ ~Called(Checkouts \cup {"pullBranch", "branchExists"})
         /\ pc \in {"done", "labelled"}
         /\ result = PreconditionError("start", "uncommitted changes")

C39_Witness ==
  /\ params.action = "start"
  /\ pc = "done"
  /\ Called({"checkoutNewBranch"})
  /\ isMainBranch(loc.currentBranch)
  /\ loc.dirty = "false"
  /\ result = OkResult("start")

\* ------------------------------------------ updateIssueNotes and other writers
MaxEdits == 2

\* what another writer types into the issue on GitHub
UserTexts == {"y", "z"}

NotesRaceFrame == UNCHANGED <<earlyVars, rdVars, corVars, usVars, ghVars, qaVars>>

InitNotesRace ==
  /\ nuPc = "idle"
  /\ nuRemote \in {<<>>, <<"x">>}
  /\ nuCurrent = <<>>
  /\ nuNotes = <<>>
  /\ nuUnread = {}
  /\ nuEdits = 0
  /\ nuResult = <<>>
  /\ EarlyIdle /\ RdIdle /\ CorIdle /\ UsIdle /\ GhIdle /\ QaIdle

\* updateIssueNotes(pi, number, notes) up to its first await
Nu_Call(n) ==
  /\ nuPc \in {"idle", "returned", "thrown"}
  /\ nuPc' = "getIssue"
  /\ nuNotes' = n
  /\ nuCurrent' = <<>>
  /\ nuUnread' = {}
  /\ nuResult' = <<>>
  /\ UNCHANGED <<nuRemote, nuEdits>>
  /\ NotesRaceFrame

\* const current = await getIssue(pi, number)
Nu_GetIssueReturns ==
  /\ nuPc = "getIssue"
  /\ \/ /\ nuCurrent' = nuRemote
        /\ nuPc' = "issue edit"
     \/ /\ nuPc' = "thrown"
        /\ UNCHANGED nuCurrent
  /\ UNCHANGED <<nuRemote, nuNotes, nuUnread, nuEdits, nuResult>>
  /\ NotesRaceFrame

\* gh issue edit --body newBody replaces the whole body
Nu_IssueEditReturns ==
  /\ nuPc = "issue edit"
  /\ \/ /\ nuRemote' = updatePiSection(nuCurrent, nuNotes)
        /\ nuPc' = "refetch"
     \/ /\ nuPc' = "thrown"
        /\ UNCHANGED nuRemote
  /\ UNCHANGED <<nuCurrent, nuNotes, nuUnread, nuEdits, nuResult>>
  /\ NotesRaceFrame

\* return await getIssue(pi, number)
Nu_RefetchReturns ==
  /\ nuPc = "refetch"
  /\ \/ /\ nuResult' = nuRemote
        /\ nuPc' = "returned"
     \/ /\ nuPc' = "thrown"
        /\ UNCHANGED nuResult
  /\ UNCHANGED <<nuRemote, nuCurrent, nuNotes, nuUnread, nuEdits>>
  /\ NotesRaceFrame

\* somebody adds a paragraph on top of the issue body on GitHub
OtherWriter(t) ==
  /\ nuEdits < MaxEdits
  /\ ~Contains(nuRemote, t)
  /\ nuEdits' = nuEdits + 1
  /\ nuRemote' = IF nuRemote = <<>> THEN <<t>> ELSE <<t, "\n", "\n">> \o nuRemote
  /\ nuUnread' = IF nuPc = "issue edit" THEN nuUnread \cup {t} ELSE nuUnread
  /\ UNCHANGED <<nuPc, nuCurrent, nuNotes, nuResult>>
  /\ NotesRaceFrame

NextNotesRace ==
  \/ \E n \in {<<"x">>, <<"x", "x">>} : Nu_Call(n)
  \/ Nu_GetIssueReturns
  \/ Nu_IssueEditReturns
  \/ Nu_RefetchReturns
  \/ \E t \in UserTexts : OtherWriter(t)

SpecNotesRace == InitNotesRace /\ [][NextNotesRace]_vars

\* C34: what another writer added to the issue body between the fetch and
\* the push of updateIssueNotes is in the body on GitHub when
\* updateIssueNotes has returned.
C34_UnreadContentKept ==
  nuPc = "returned" => \A t \in nuUnread : Contains(extractUserContent(nuRemote), t)

\* --------------------------------------------- session-to-issue correlation
MaxDigits == 2

\* session names: something before the digits, the digits, what separates
\* them from the title, and a title
CorNames ==
  {pre \o ds \o sep \o title :
     pre \in {<<>>, <<"#">>, <<" ", "#">>},
     ds \in SeqsUpTo({"0", "1"}, MaxDigits),
     sep \in {<<>>, <<":">>, <<":", " ">>, <<" ">>},
     title \in {<<>>, <<"a">>}}

CorrelationFrame == UNCHANGED <<earlyVars, rdVars, nuVars, usVars, ghVars, qaVars>>

InitCorrelation ==
  /\ corName \in CorNames
  /\ corNumber \in 0..MaxIssueNumber
  /\ corExtracted = NoNumber
  /\ corMatched = FALSE
  /\ corPc = "input"
  /\ EarlyIdle /\ RdIdle /\ NuIdle /\ UsIdle /\ GhIdle /\ QaIdle

\* the pr action and /todo-pr resolve the session to an issue
Cor_Extract ==
  /\ corPc = "input"
  /\ corExtracted' = extractIssueNumberFromSession(corName)
  /\ corPc' = "extracted"
  /\ UNCHANGED <<corName, corNumber, corMatched>>
  /\ CorrelationFrame

\* the start action asks whether the session belongs to the issue
Cor_Match ==
  /\ corPc = "extracted"
  /\ corMatched' = sessionMatchesIssue(corName, corNumber)
  /\ corPc' = "matched"
  /\ UNCHANGED <<corName, corNumber, corExtracted>>
  /\ CorrelationFrame

NextCorrelation == Cor_Extract \/ Cor_Match

SpecCorrelation == InitCorrelation /\ [][NextCorrelation]_vars

\* the name is written the way getIssueSessionName writes it: "#", the
\* number without leading zeros, ":" and a space
WrittenAsIssueSession(name) ==
  LET e == DigitsEnd(name, 2)
  IN /\ Len(name) >= 4
     /\ name[1] = "#"
     /\ e >= 2
     /\ e + 2 <= Len(name)
     /\ name[e + 1] = ":"
     /\ name[e + 2] = " "
     /\ (name[2] = "0" => e = 2)

\* C35 as stated: the session is resolved to issue n exactly when it is
\* considered to belong to issue n, for every name.
C35_Original ==
  corPc = "matched" => ((corExtracted = corNumber) <=> corMatched)

\* C35: a session that belongs to issue n is resolved to issue n, for every
\* name; a session resolved to issue n belongs to issue n when its name is
\* written as getIssueSessionName writes it.
C35_CorrelationAgrees ==
  corPc = "matched" =>
    /\ corMatched => corExtracted = corNumber
    /\ (corExtracted = corNumber /\ WrittenAsIssueSession(corName)) => corMatched

C35_Witness ==
  /\ corPc = "matched"
  /\ corName = <<"#", "1", "0", ":", " ", "a">>
  /\ corNumber = 10
  /\ corMatched
  /\ corExtracted = 10

\* ------------------------------------------------------ PR update comment
\* Texts are sequences of lines; a line is a heading, a commit line
\* "- hash message", a line of prose, or an empty line.
Heading(t) == [kind |-> "heading", text |-> t]
CommitLine(hash) == [kind |-> "commit", text |-> hash]
Prose(t) == [kind |-> "prose", text |-> t]
Blank == [kind |-> "blank", text |-> ""]

Hashes == {"a1", "b2", "c3"}
CommitLists ==
  {cs \in SeqsUpTo(Hashes, MaxCommits) :
     \A i, j \in 1..Len(cs) : i # j => cs[i] # cs[j]}

\* String.prototype.trimEnd on lines
RECURSIVE TrimEnd(_)
TrimEnd(ls) ==
  IF ls # <<>> /\ ls[Len(ls)] = Blank THEN TrimEnd(SubSeq(ls, 1, Len(ls) - 1))
  ELSE ls

\* "\n\n### Commits\n" and one line per commit
commitsSection(commits) ==
  IF commits = <<>> THEN <<>>
  ELSE <<Blank, Heading("### Commits")>>
         \o [i \in 1..Len(commits) |-> CommitLine(commits[i])]

UpdateFallback(commits) ==
  IF commits # <<>>
  THEN <<Heading("## Feedback addressed"), Blank, Prose("(Changes pushed)")>>
         \o commitsSection(commits)
  ELSE <<Heading("## Feedback addressed"), Blank, Prose("(Responded to feedback)")>>

\* what the model may answer: nothing, a summary, a summary followed by
\* empty lines, or a summary with a commits section of its own
Summaries(commits) ==
  LET summary == <<Heading("## Feedback addressed"), Prose("- summary")>>
  IN {<<>>, summary, summary \o <<Blank>>} \cup
     (IF commits = <<>> THEN {} ELSE {summary \o commitsSection(commits)})

UpdateSummaryFrame == UNCHANGED <<earlyVars, rdVars, nuVars, corVars, ghVars, qaVars>>

InitUpdateSummary == UsIdle /\ EarlyIdle /\ RdIdle /\ NuIdle /\ CorIdle /\ GhIdle /\ QaIdle

\* generatePrUpdateSummary up to its first await
Us_Call(context, commits) ==
  /\ usPc \in {"idle", "returned"}
  /\ usContext' = context
  /\ usCommits' = commits
  /\ usResponse' = <<>>
  /\ IF Trim(context) = <<>> /\ commits = <<>>
     THEN /\ usPc' = "returned"
          /\ usResult' = UpdateFallback(commits)
     ELSE /\ usPc' = "model"
          /\ usResult' = <<>>
  /\ UpdateSummaryFrame

\* await getSmallModel(ctx): a model with its key, null, or a throw
Us_ModelReturns ==
  /\ usPc = "model"
  /\ \/ /\ usPc' = "complete"
        /\ UNCHANGED usResult
     \/ /\ usPc' = "returned"
        /\ usResult' = UpdateFallback(usCommits)
  /\ UNCHANGED <<usContext, usCommits, usResponse>>
  /\ UpdateSummaryFrame

\* await complete(...): a response, or a throw
Us_CompleteReturns ==
  /\ usPc = "complete"
  /\ \/ \E summary \in Summaries(usCommits) :
          /\ usResponse' = summary
          /\ usResult' = IF summary = <<>> THEN UpdateFallback(usCommits)
                         ELSE IF usCommits # <<>>
                         THEN TrimEnd(summary) \o commitsSection(usCommits)
                         ELSE summary
     \/ /\ usResult' = UpdateFallback(usCommits)
        /\ UNCHANGED usResponse
  /\ usPc' = "returned"
  /\ UNCHANGED <<usContext, usCommits>>
  /\ UpdateSummaryFrame

NextUpdateSummary ==
  \/ \E context \in {<<>>, <<"\n">>, <<"x">>}, commits \in CommitLists :
       Us_Call(context, commits)
  \/ Us_ModelReturns
  \/ Us_CompleteReturns

SpecUpdateSummary == InitUpdateSummary /\ [][NextUpdateSummary]_vars

Occurrences(ls, line) == Cardinality({i \in 1..Len(ls) : ls[i] = line})

\* C36: with commits, the returned comment holds the "### Commits" heading
\* once and the line of every commit once, in the order of the commits.
C36_CommitsListedOnce ==
  (usPc = "returned" /\ usCommits # <<>>) =>
    /\ Occurrences(usResult, Heading("### Commits")) = 1
    /\ SelectSeq(usResult, LAMBDA l : l.kind = "commit")
         = [i \in 1..Len(usCommits) |-> CommitLine(usCommits[i])]

\* ------------------------------------------------- the two context gatherers
MaxHistory == 3

\* entries of a session branch: user and assistant messages whose content is
\* an array of parts or a plain string, a bash tool result, and the result
\* of a gh_todo call that turn_end labelled as a checkpoint
ShapedEntries ==
  [type : {"message"}, role : {"user", "assistant"}, content : {"array", "string"},
   text : {"t"}, label : {"none"}]
  \cup {[type |-> "message", role |-> "user", content |-> "array", text |-> "",
         label |-> "none"],
        [type |-> "message", role |-> "toolResult", content |-> "array",
         text |-> "cmd", label |-> "none"],
        [type |-> "message", role |-> "toolResult", content |-> "array",
         text |-> "", label |-> PR_LABEL_CREATED]}

\* what one entry adds to sessionContext; texts here are shorter than the
\* 500 and 100 character cuts
RenderedEntry(e) ==
  IF e.type # "message" THEN <<>>
  ELSE IF e.role = "user"
    THEN IF e.text # "" THEN <<"User: ", e.text, "\n\n">> ELSE <<>>
  ELSE IF e.role = "assistant"
    THEN IF e.text # "" THEN <<"Assistant: ", e.text, "\n\n">> ELSE <<>>
  ELSE IF e.text # "" THEN <<"Tool: bash ", e.text, "\n\n">> ELSE <<>>

\* the loop of gatherSessionContext: content that is no array is wrapped
RECURSIVE gatherSessionContext(_)
gatherSessionContext(es) ==
  IF es = <<>> THEN <<>>
  ELSE RenderedEntry(Head(es)) \o gatherSessionContext(Tail(es))

\* msg.content.map on a string throws a TypeError
MapThrows(e) ==
  e.type = "message" /\ e.role \in {"user", "assistant"} /\ e.content = "string"

\* the loop of gatherScopedSessionContext inside its try block: a throw ends
\* the loop and what was gathered so far is returned
RECURSIVE ScopedLoop(_)
ScopedLoop(es) ==
  IF es = <<>> THEN <<>>
  ELSE IF MapThrows(Head(es)) THEN <<>>
  ELSE RenderedEntry(Head(es)) \o ScopedLoop(Tail(es))

gatherScopedMessages(es) ==
  ScopedLoop(getEntriesAfter(es, findLastPrCheckpointEntryId(es)))

GatherersFrame == UNCHANGED <<earlyVars, rdVars, nuVars, corVars, usVars, qaVars>>

InitGatherers == GhIdle /\ EarlyIdle /\ RdIdle /\ NuIdle /\ CorIdle /\ UsIdle /\ QaIdle

\* the session goes on
Gh_Append(e) ==
  /\ Len(ghHist) < MaxHistory
  /\ ghHist' = Append(ghHist, e)
  /\ ghPc' = "idle"
  /\ ghFull' = <<>>
  /\ ghScoped' = <<>>
  /\ GatherersFrame

\* both gatherers are applied to the branch
Gh_Gather ==
  /\ ghPc = "idle"
  /\ ghFull' = gatherSessionContext(
                 getEntriesAfter(ghHist, findLastPrCheckpointEntryId(ghHist)))
  /\ ghScoped' = gatherScopedMessages(ghHist)
  /\ ghPc' = "gathered"
  /\ UNCHANGED ghHist
  /\ GatherersFrame

NextGatherers ==
  \/ \E e \in ShapedEntries : Gh_Append(e)
  \/ Gh_Gather

SpecGatherers == InitGatherers /\ [][NextGatherers]_vars

\* C37: the scoped gatherer returns what the full gatherer renders for the
\* entries after the last checkpoint.
C37_ScopedIsRestriction ==
  ghPc = "gathered" => ghScoped = ghFull

\* ----------------------------------------- todo list UI: actions in flight
\* The dialog without the host's drawing.  pi.exec is called with a timeout
\* in every gateway function, so the awaited part of onAction ends: the
\* completion of the pending action is weakly fair.
NextUiFlight ==
  \/ \E list \in IssueLists : OpenTodo(list)
  \/ \E key \in Keys : HandleInput(key)
  \/ ActionCompletes

SpecUiFlight == InitUi /\ [][NextUiFlight]_vars /\ WF_vars(ActionCompletes)

\* while an onAction call is in flight it is neither replaced nor joined by
\* another, and a key changes nothing in the component
InFlightUndisturbed ==
  pending # NoAction =>
    /\ pending' \in {pending, NoAction}
    /\ pending' = pending => (Component' = Component /\ dispatched' = <<>>)

\* C38: an input dispatches at most one action, and only when the component
\* is not loading; while an action is in flight the dialog is open and
\* loading, no other action is dispatched and input changes nothing; every
\* action in flight is followed by a state in which loading is cleared.
C38_OneActionInFlight ==
  /\ [](/\ Len(dispatched) <= 1
        /\ dispatched # <<>> => ~before.isLoading
        /\ pending # NoAction => (isLoading /\ open))
  /\ [][InFlightUndisturbed]_vars
  /\ (pending # NoAction ~> ~isLoading)

C38_Witness ==
  /\ open
  /\ pending = NoAction
  /\ ~isLoading
  /\ statusMessage = "Error"

\* ------------------------------------------------------------ /qa wizard
MaxQuestions == 3

\* keys the wizard may get; "x" and "newline" (Shift+Enter) go to the editor
\* and insert text, "backspace" deletes the last character
QaKeys == {"escape", "ctrl+return", "tab", "shift+tab", "return", "x",
           "newline", "backspace"}

Has(answers, i) == answers[i] # Null
Unanswered(st) == {i \in DOMAIN st.answers : ~Has(st.answers, i)}
AnswerOrEmpty(answers, i) == IF Has(answers, i) THEN answers[i] ELSE <<>>

\* saveCurrentAnswer storing whatever the editor holds
saveCurrentAnswer_alsoEmpty(st) ==
  [st EXCEPT !.answers[st.currentIndex] = Trim(st.editor)]

saveCurrentAnswer(st) ==
  LET text == Trim(st.editor)
  IN IF text # <<>> THEN [st EXCEPT !.answers[st.currentIndex] = text] ELSE st

\* advanceToNext(submittedValue) with the editor holding `left` after Enter
advanceToNext(st, submittedValue, left) ==
  LET text == Trim(submittedValue)
      s1 == IF text # <<>>
            THEN [st EXCEPT !.answers[st.currentIndex] = text, !.editor = left]
            ELSE [st EXCEPT !.editor = left]
      later == {i \in Unanswered(s1) : i > s1.currentIndex}
      earlier == {i \in Unanswered(s1) : i < s1.currentIndex}
      nextIndex == IF later # {} THEN MinOf(later)
                   ELSE IF earlier # {} THEN MinOf(earlier)
                   ELSE NoNumber
  IN IF nextIndex = NoNumber THEN s1
     ELSE [s1 EXCEPT !.currentIndex = nextIndex,
                     !.editor = AnswerOrEmpty(s1.answers, nextIndex)]

allAnswered(st) == Unanswered(st) = {}

navigateTo(st, index) ==
  IF index < 0 \/ index >= qaN THEN st
  ELSE LET s1 == saveCurrentAnswer(st)
       IN [s1 EXCEPT !.currentIndex = index,
                     !.editor = AnswerOrEmpty(s1.answers, index)]

QnaFrame == UNCHANGED <<earlyVars, rdVars, nuVars, corVars, usVars, ghVars>>

\* the wizard opens on the first of the extracted questions
InitQna ==
  /\ qaN \in 1..MaxQuestions
  /\ qaAnswers = [i \in 0..(qaN - 1) |-> Null]
  /\ qaIndex = 0
  /\ qaEditor = <<>>
  /\ qaDone = "open"
  /\ qaKey = "none"
  /\ qaBefore = QaState
  /\ EarlyIdle /\ RdIdle /\ NuIdle /\ CorIdle /\ UsIdle /\ GhIdle

QaBecomes(st, key, how) ==
  /\ qaAnswers' = st.answers
  /\ qaIndex' = st.currentIndex
  /\ qaEditor' = st.editor
  /\ qaDone' = how
  /\ qaKey' = key
  /\ qaBefore' = QaState
  /\ UNCHANGED qaN
  /\ QnaFrame

\* Escape: done(null)
Qa_Escape ==
  /\ qaDone = "open"
  /\ QaBecomes(QaState, "escape", "null")

\* Ctrl+Enter: submit()
Qa_Submit ==
  /\ qaDone = "open"
  /\ LET s1 == saveCurrentAnswer(QaState)
     IN IF allAnswered(s1) THEN QaBecomes(s1, "ctrl+return", "answers")
        ELSE QaBecomes(navigateTo(s1, MinOf(Unanswered(s1))), "ctrl+return", "open")

Qa_Tab ==
  /\ qaDone = "open"
  /\ QaBecomes(navigateTo(saveCurrentAnswer(QaState), (qaIndex + 1) % qaN),
               "tab", "open")

Qa_ShiftTab ==
  /\ qaDone = "open"
  /\ QaBecomes(navigateTo(saveCurrentAnswer(QaState), (qaIndex - 1 + qaN) % qaN),
               "shift+tab", "open")

\* Enter in the editor: onSubmit(value); the editor of the library may keep
\* or clear its text
Qa_Enter ==
  /\ qaDone = "open"
  /\ \E left \in {<<>>, qaEditor} :
       QaBecomes(advanceToNext(QaState, qaEditor, left), "return", "open")

\* any other key goes to the editor
Qa_Edit(key) ==
  /\ qaDone = "open"
  /\ key \in {"x", "newline", "backspace"}
  /\ Len(qaEditor \o Typed(key)) <= MaxTextLen
  /\ QaBecomes([QaState EXCEPT !.editor =
                  IF key = "backspace"
                  THEN (IF @ = <<>> THEN @ ELSE SubSeq(@, 1, Len(@) - 1))
                  ELSE @ \o Typed(key)],
               key, "open")

NextQna ==
  \/ Qa_Escape
  \/ Qa_Submit
  \/ Qa_Tab
  \/ Qa_ShiftTab
  \/ Qa_Enter
  \/ \E key \in QaKeys : Qa_Edit(key)

SpecQna == InitQna /\ [][NextQna]_vars

\* C40: the wizard ends with answers only on Ctrl+Enter and only with a
\* non-blank answer for every question; Ctrl+Enter that does not end it
\* leads to the first question without answer; Escape ends it with no
\* answers whatever was answered; the index of the current question is
\* always between 0 and the number of questions minus one.
C40_WizardCompletion ==
  qaDone # "idle" =>
    /\ qaIndex \in 0..(qaN - 1)
    /\ qaDone = "answers" =>
         /\ qaKey = "ctrl+return"
         /\ \A i \in 0..(qaN - 1) :
              Has(qaAnswers, i) /\ Trim(qaAnswers[i]) # <<>>
    /\ (qaKey = "ctrl+return" /\ qaDone = "open") =>
         /\ ~Has(qaAnswers, qaIndex)
         /\ \A i \in 0..(qaIndex - 1) : Has(qaAnswers, i)
    /\ qaKey = "escape" => qaDone = "null"

C40_Witness ==
  /\ qaDone = "answers"
  /\ qaN = 3
  /\ qaKey = "ctrl+return"
  /\ qaBefore.currentIndex = 1
  /\ ~Has(qaBefore.answers, 1)

====
